---- MODULE Spec2Model ----
(***************************************************************************)
(* Instance backing of a WebAssembly runtime (wasmer runtime-core):        *)
(* dynamic linear memories behind shared handles (memory/mod.rs,           *)
(* memory/dynamic.rs) and the import linker (backing.rs).                  *)
(*                                                                         *)
(* Byte contents of a mapping are kept sparsely: a function from the       *)
(* offsets holding a non-zero byte to that byte; every other offset of a   *)
(* fresh mapping reads as zero.  Page arithmetic uses the real page size.  *)
(***************************************************************************)
EXTENDS Integers, Sequences, FiniteSets, TLC

VARIABLES
    regions,    \* sys::Memory mappings, by start address
    storages,   \* Rc<RefCell<(MemoryStorage, Box<vm::LocalMemory>)>> cells
    vm_local,   \* the boxed vm::LocalMemory records, by box address
    handles,    \* the Memory handles held by the embedder
    backing,    \* the ImportBacking of the instance linked last
    table_cells, \* the storages of the tables, by table id
    last_op,    \* the operation performed last
    last,       \* its result, and for a link its arguments
    wrote       \* history: typed writes not yet followed by a grow or an overlapping write

vars == <<regions, storages, vm_local, handles, backing, table_cells, last_op, last, wrote>>

----------------------------------------------------------------------------
(* Bounds of the model *)

MaxAddr == 3          \* distinct start addresses the OS hands out
MaxPages == 2         \* pages in a descriptor or a delta; the OS refuses larger mappings
MaxHandles == 2       \* Memory handles the embedder holds
MaxDecls == 2         \* imports a module declares

(* Program constants *)

WASM_PAGE_SIZE == 65536
DYNAMIC_GUARD_SIZE == 4096

WASM_MAX_PAGES == 65536

----------------------------------------------------------------------------
(* Option / Result values *)

None == [tag |-> "None"]
Some(x) == [tag |-> "Some", val |-> x]
Ok(x) == [tag |-> "Ok", val |-> x]
Err(e) == [tag |-> "Err", err |-> e]
Unit == "()"

\* the outcome of a call that ended the process
Aborted == [tag |-> "Abort"]

NULL == 0
Addr == 1..MaxAddr

----------------------------------------------------------------------------
(* units: Pages and Bytes *)

bytes(pages) == pages * WASM_PAGE_SIZE

\* Pages::checked_add: None when the sum is no valid page count
checked_add(a, b) == IF a + b <= WASM_MAX_PAGES THEN Some(a + b) ELSE None

\* Pages::checked_add for a right-hand side beyond the integers of the model
\* checker, given as the 16-bit halves of the u32: rhs = hi * 65536 + lo.  The sum
\* is formed at full width and is a page count when it is <= WASM_MAX_PAGES.
checked_add_halves(a, hi, lo) ==
    LET low == (a % 65536) + lo
        high == (a \div 65536) + hi + (low \div 65536)
    IN  IF high <= 1 /\ high * 65536 + (low % 65536) <= WASM_MAX_PAGES
        THEN Some(high * 65536 + (low % 65536))
        ELSE None

----------------------------------------------------------------------------
(* Sparse byte contents *)

EmptyBytes == [o \in {} |-> 0]

byte_at(data, o) == IF o \in DOMAIN data THEN data[o] ELSE 0

\* dst[off .. off + Len(bs)] = bs, every other byte kept
put_bytes(data, off, bs) ==
    LET touched == {off + i - 1 : i \in 1..Len(bs)}
        val(o) == IF o \in touched THEN bs[o - off + 1] ELSE byte_at(data, o)
        dom == {o \in (DOMAIN data) \cup touched : val(o) # 0}
    IN [o \in dom |-> val(o)]

\* the bytes data[off .. off + n] as a sequence
get_bytes(data, off, n) == [i \in 1..n |-> byte_at(data, off + i - 1)]

\* data[0 .. n]
slice_to(data, n) == [o \in {x \in DOMAIN data : x < n} |-> data[o]]

----------------------------------------------------------------------------
(* sys::Memory: an OS mapping with a protected prefix *)

FreeRegion == [live |-> FALSE, len |-> 0, rw |-> 0, data |-> EmptyBytes]

\* the address the OS places the next mapping at: the lowest one not in use
fresh_addr(rg) ==
    IF \E a \in Addr : ~rg[a].live
    THEN CHOOSE a \in Addr : ~rg[a].live /\ \A b \in Addr : ~rg[b].live => a <= b
    ELSE NULL

\* sys::Memory::with_size(size) at address a; the OS may refuse
with_size(rg, a, size, granted) ==
    IF granted /\ a # NULL /\ size <= bytes(MaxPages) + DYNAMIC_GUARD_SIZE
    THEN Ok([rg EXCEPT ![a] = [live |-> TRUE, len |-> size, rw |-> 0, data |-> EmptyBytes]])
    ELSE Err("mmap")

\* memory.protect(0..upto, ReadWrite); the OS may refuse
protect(rg, a, upto, granted) ==
    IF granted THEN Ok([rg EXCEPT ![a].rw = upto]) ELSE Err("mprotect")

\* Drop for sys::Memory
unmap(rg, a) == [rg EXCEPT ![a] = FreeRegion]

----------------------------------------------------------------------------
(* types: MemoryDescriptor and ValueType *)

Descriptor(min, max) == [minimum |-> min, maximum |-> max, shared |-> FALSE]

ValueTypes == {"u8", "u16"}

size_of(ty) == IF ty = "u8" THEN 1 ELSE 2

\* ValueType::into_le: the little-endian bytes of value
into_le(ty, value) == [i \in 1..size_of(ty) |-> (value \div (256 ^ (i - 1))) % 256]

RECURSIVE le_value(_, _)
le_value(bs, i) == IF i > Len(bs) THEN 0 ELSE bs[i] + 256 * le_value(bs, i + 1)

\* ValueType::from_le on the buffer data[offset .. len]
from_le(ty, data, offset, len) ==
    IF len - offset >= size_of(ty)
    THEN Ok(le_value(get_bytes(data, offset, size_of(ty)), 1))
    ELSE Err("BufferTooSmall")

----------------------------------------------------------------------------
(* memory/dynamic.rs: DynamicMemory *)

NullLocal == [base |-> NULL, bound |-> 0, memory |-> NULL]

\* DynamicMemory::new(desc, local), mapping at address a, boxed at storage_ptr
DynamicMemory_new(desc, local, rg, a, storage_ptr, allocOk, protectOk) ==
    LET min_bytes == bytes(desc.minimum)
        mapped == with_size(rg, a, min_bytes + DYNAMIC_GUARD_SIZE, allocOk)
        memory == IF mapped.tag = "Ok" /\ desc.minimum # 0
                  THEN protect(mapped.val, a, min_bytes, protectOk)
                  ELSE mapped
    IN  IF memory.tag = "Err"
        THEN [ret |-> Err("UnableToCreateMemory"), local |-> local, regions |-> rg]
        ELSE [ret |-> Ok([memory |-> a, current |-> desc.minimum, max |-> desc.maximum]),
              local |-> [base |-> a, bound |-> min_bytes, memory |-> storage_ptr],
              regions |-> memory.val]

\* DynamicMemory::size
DynamicMemory_size(self) == self.current

\* a copy that leaves the destination as it was mapped
copy_nothing(dst, src, n) == dst

\* new_memory[..n].copy_from_slice(&old_memory[..n])
copy_from_slice(dst, src, n) ==
    LET val(o) == IF o < n THEN byte_at(src, o) ELSE byte_at(dst, o)
        dom == {o \in (DOMAIN dst) \cup (DOMAIN src) : val(o) # 0}
    IN [o \in dom |-> val(o)]

\* grow, the checks: Ok(new_pages), or Err(what grow returns at once)
grow_target(self, delta) ==
    LET sum == checked_add(self.current, delta)
    IN  IF delta = 0 THEN Err(Some(self.current))
        ELSE IF sum.tag = "None" THEN Err(None)
        ELSE IF self.max.tag = "Some" /\ sum.val > self.max.val THEN Err(None)
        ELSE Ok(sum.val)

\* the checks of a grow whose sum is formed in 32 bits and wraps around
grow_target_halves_wrapping(self, hi, lo) ==
    LET low == (self.current % 65536) + lo
        high == ((self.current \div 65536) + hi + (low \div 65536)) % 65536
        sum == IF high <= 1 /\ high * 65536 + (low % 65536) <= WASM_MAX_PAGES
               THEN Some(high * 65536 + (low % 65536))
               ELSE None
    IN  IF hi = 0 /\ lo = 0 THEN Err(Some(self.current))
        ELSE IF sum.tag = "None" THEN Err(None)
        ELSE IF self.max.tag = "Some" /\ sum.val > self.max.val THEN Err(None)
        ELSE Ok(sum.val)

\* grow, the checks, for a delta given in 16-bit halves
grow_target_halves(self, hi, lo) ==
    LET sum == checked_add_halves(self.current, hi, lo)
    IN  IF hi = 0 /\ lo = 0 THEN Err(Some(self.current))
        ELSE IF sum.tag = "None" THEN Err(None)
        ELSE IF self.max.tag = "Some" /\ sum.val > self.max.val THEN Err(None)
        ELSE Ok(sum.val)

\* grow, the new mapping at address a: mapped, protected and filled from the old one
grow_remap(self, new_pages, rg, a, allocOk, protectOk) ==
    LET mapped == with_size(rg, a, bytes(new_pages) + DYNAMIC_GUARD_SIZE, allocOk)
        protected == protect(mapped.val, a, bytes(new_pages), protectOk)
    IN  IF mapped.tag = "Err" THEN mapped
        ELSE IF protected.tag = "Err" THEN protected
        ELSE Ok([protected.val EXCEPT ![a].data =
                    copy_from_slice(@, rg[self.memory].data, bytes(self.current))])

\* grow, the commit: the old mapping dropped, the record and the page count updated
grow_commit(self, new_pages, local, remapped, a) ==
    [ret |-> Some(self.current),
     self |-> [self EXCEPT !.memory = a, !.current = new_pages],
     local |-> [local EXCEPT !.base = a, !.bound = bytes(new_pages)],
     regions |-> unmap(remapped, self.memory)]

\* a grow that counts the new pages before it has the new mapping
DynamicMemory_grow_counts_early(self, delta, local, rg, a, allocOk, protectOk) ==
    LET target == grow_target(self, delta)
        remapped == grow_remap(self, target.val, rg, a, allocOk, protectOk)
    IN  IF target.tag = "Err"
        THEN [ret |-> target.err, self |-> self, local |-> local, regions |-> rg]
        ELSE IF remapped.tag = "Err"
        THEN [ret |-> None, self |-> [self EXCEPT !.current = target.val],
              local |-> local, regions |-> rg]
        ELSE grow_commit(self, target.val, local, remapped.val, a)

\* a grow that answers the new page count
DynamicMemory_grow_returns_new(self, delta, local, rg, a, allocOk, protectOk) ==
    LET target == grow_target(self, delta)
        remapped == grow_remap(self, target.val, rg, a, allocOk, protectOk)
    IN  IF target.tag = "Err"
        THEN [ret |-> target.err, self |-> self, local |-> local, regions |-> rg]
        ELSE IF remapped.tag = "Err"
        THEN [ret |-> None, self |-> self, local |-> local, regions |-> rg]
        ELSE [grow_commit(self, target.val, local, remapped.val, a)
                 EXCEPT !.ret = Some(target.val)]

\* a grow that leaves the base of the record at the mapping it drops
DynamicMemory_grow_stale_base(self, delta, local, rg, a, allocOk, protectOk) ==
    LET target == grow_target(self, delta)
        remapped == grow_remap(self, target.val, rg, a, allocOk, protectOk)
    IN  IF target.tag = "Err"
        THEN [ret |-> target.err, self |-> self, local |-> local, regions |-> rg]
        ELSE IF remapped.tag = "Err"
        THEN [ret |-> None, self |-> self, local |-> local, regions |-> rg]
        ELSE [grow_commit(self, target.val, local, remapped.val, a)
                 EXCEPT !.local.base = local.base]

\* DynamicMemory::grow(delta, local), the new mapping placed at address a
DynamicMemory_grow(self, delta, local, rg, a, allocOk, protectOk) ==
    LET target == grow_target(self, delta)
        remapped == grow_remap(self, target.val, rg, a, allocOk, protectOk)
    IN  IF target.tag = "Err"
        THEN [ret |-> target.err, self |-> self, local |-> local, regions |-> rg]
        ELSE IF remapped.tag = "Err"
        THEN [ret |-> None, self |-> self, local |-> local, regions |-> rg]
        ELSE grow_commit(self, target.val, local, remapped.val, a)

\* DynamicMemory::grow(delta, local) for a delta given in 16-bit halves
DynamicMemory_grow_halves(self, hi, lo, local, rg, a, allocOk, protectOk) ==
    LET target == grow_target_halves(self, hi, lo)
        remapped == grow_remap(self, target.val, rg, a, allocOk, protectOk)
    IN  IF target.tag = "Err"
        THEN [ret |-> target.err, self |-> self, local |-> local, regions |-> rg]
        ELSE IF remapped.tag = "Err"
        THEN [ret |-> None, self |-> self, local |-> local, regions |-> rg]
        ELSE grow_commit(self, target.val, local, remapped.val, a)

\* DynamicMemory::as_slice / as_slice_mut: the accessible bytes
as_slice(self, rg) ==
    [ptr |-> self.memory, len |-> bytes(self.current),
     data |-> slice_to(rg[self.memory].data, bytes(self.current))]

----------------------------------------------------------------------------
(* memory/static_.rs: StaticMemory, after section 4.2 of the specification *)

\* the guard after a static memory: larger than the dynamic one, its size is
\* implementation-defined
SAFE_STATIC_GUARD_SIZE == 16 * DYNAMIC_GUARD_SIZE

\* sys::Memory::with_size(size) at address a for the one reservation of a static
\* memory; the OS may refuse
reserve(rg, a, size, granted) ==
    IF granted /\ a # NULL
    THEN Ok([rg EXCEPT ![a] = [live |-> TRUE, len |-> size, rw |-> 0, data |-> EmptyBytes]])
    ELSE Err("mmap")

\* StaticMemory::new(desc, local): the maximum is reserved at address a and the
\* minimum made accessible
StaticMemory_new(desc, local, rg, a, storage_ptr, allocOk, protectOk) ==
    LET min_bytes == bytes(desc.minimum)
        mapped == reserve(rg, a, bytes(desc.maximum.val) + SAFE_STATIC_GUARD_SIZE, allocOk)
        memory == IF mapped.tag = "Ok" /\ desc.minimum # 0
                  THEN protect(mapped.val, a, min_bytes, protectOk)
                  ELSE mapped
    IN  IF memory.tag = "Err"
        THEN [ret |-> Err("UnableToCreateMemory"), local |-> local, regions |-> rg]
        ELSE [ret |-> Ok([memory |-> a, current |-> desc.minimum, max |-> desc.maximum]),
              local |-> [base |-> a, bound |-> min_bytes, memory |-> storage_ptr],
              regions |-> memory.val]

\* StaticMemory::size
StaticMemory_size(self) == self.current

\* grow in place: the accessible prefix of the reservation is extended, the
\* base stays and the bound of the record follows
grow_in_place(self, new_pages, local, rg, protectOk) ==
    LET protected == protect(rg, self.memory, bytes(new_pages), protectOk)
    IN  IF protected.tag = "Err"
        THEN [ret |-> None, self |-> self, local |-> local, regions |-> rg]
        ELSE [ret |-> Some(self.current),
              self |-> [self EXCEPT !.current = new_pages],
              local |-> [local EXCEPT !.bound = bytes(new_pages)],
              regions |-> protected.val]

\* StaticMemory::grow(delta, local)
StaticMemory_grow(self, delta, local, rg, protectOk) ==
    LET target == grow_target(self, delta)
    IN  IF target.tag = "Err"
        THEN [ret |-> target.err, self |-> self, local |-> local, regions |-> rg]
        ELSE grow_in_place(self, target.val, local, rg, protectOk)

\* StaticMemory::grow(delta, local) for a delta given in 16-bit halves
StaticMemory_grow_halves(self, hi, lo, local, rg, protectOk) ==
    LET target == grow_target_halves(self, hi, lo)
    IN  IF target.tag = "Err"
        THEN [ret |-> target.err, self |-> self, local |-> local, regions |-> rg]
        ELSE grow_in_place(self, target.val, local, rg, protectOk)

----------------------------------------------------------------------------
(* memory/mod.rs: Memory, a handle on a shared storage cell *)

\* MemoryDescriptor::memory_type: static when a maximum is present, shared
\* static when the descriptor is shared as well, dynamic otherwise
memory_type(desc) ==
    IF desc.maximum.tag = "Some"
    THEN IF desc.shared THEN "SharedStatic" ELSE "Static"
    ELSE "Dynamic"

\* Memory::new(desc), up to the storage: the arm memory_type names builds it;
\* the shared arm is unimplemented!() and ends the process
Memory_new(desc, local, rg, a, storage_ptr, allocOk, protectOk) ==
    LET ty == memory_type(desc)
        memory_storage(ret) ==
            IF ret.tag = "Err" THEN ret ELSE Ok([tag |-> ty, val |-> ret.val])
    IN  CASE ty = "Dynamic" ->
               [DynamicMemory_new(desc, local, rg, a, storage_ptr, allocOk, protectOk)
                   EXCEPT !.ret = memory_storage(@)]
          [] ty = "Static" ->
               [StaticMemory_new(desc, local, rg, a, storage_ptr, allocOk, protectOk)
                   EXCEPT !.ret = memory_storage(@)]
          [] ty = "SharedStatic" ->
               [ret |-> Aborted, local |-> local, regions |-> rg]

\* Memory::grow(delta) on the storage: the match on MemoryStorage
Memory_grow(memory_storage, delta, local, rg, a, allocOk, protectOk) ==
    [IF memory_storage.tag = "Dynamic"
     THEN DynamicMemory_grow(memory_storage.val, delta, local, rg, a, allocOk, protectOk)
     ELSE StaticMemory_grow(memory_storage.val, delta, local, rg, protectOk)
        EXCEPT !.self = [tag |-> memory_storage.tag, val |-> @]]

\* Memory::grow(delta) on the storage for a delta given in 16-bit halves
Memory_grow_halves(memory_storage, hi, lo, local, rg, a, allocOk, protectOk) ==
    [IF memory_storage.tag = "Dynamic"
     THEN DynamicMemory_grow_halves(memory_storage.val, hi, lo, local, rg, a,
                                    allocOk, protectOk)
     ELSE StaticMemory_grow_halves(memory_storage.val, hi, lo, local, rg, protectOk)
        EXCEPT !.self = [tag |-> memory_storage.tag, val |-> @]]

\* MemoryStorage::to_type of the storage behind a handle
to_type(self) == storages[self.storage].memory_storage.tag

\* the DynamicMemory or StaticMemory behind a handle
memory_storage_of(self) == storages[self.storage].memory_storage.val
local_of(self) == storages[self.storage].local

\* Memory::descriptor
Memory_descriptor(self) == self.desc

\* Memory::size
Memory_size(self) ==
    IF to_type(self) = "Dynamic"
    THEN DynamicMemory_size(memory_storage_of(self))
    ELSE StaticMemory_size(memory_storage_of(self))

\* impl Clone for Memory
Memory_clone(self) == [desc |-> self.desc, storage |-> self.storage]

\* Memory::direct_access_mut::<T>(f) for the closure |s| s[index] = value: the
\* closure is handed the whole memory as a slice of len / size_of::<T>()
\* native-endian values; indexing beyond it panics in the closure and leaves
\* the memory as it was
Memory_direct_access_mut(self, ty, index, value) ==
    LET dyn == memory_storage_of(self)
        mem_slice == as_slice(dyn, regions)
        t_len == mem_slice.len \div size_of(ty)
    IN  IF index < t_len
        THEN [ret |-> Ok(Unit),
              regions |-> [regions EXCEPT ![dyn.memory].data =
                              put_bytes(@, index * size_of(ty), into_le(ty, value))]]
        ELSE [ret |-> Aborted, regions |-> regions]

\* Memory::vm_local_memory: the address of the boxed record
Memory_vm_local_memory(self) == local_of(self)

\* Memory::read::<T>(offset)
Memory_read(self, ty, offset) ==
    LET mem_slice == as_slice(memory_storage_of(self), regions)
    IN  IF offset + size_of(ty) <= mem_slice.len
        THEN LET r == from_le(ty, mem_slice.data, offset, mem_slice.len)
             IN IF r.tag = "Ok" THEN r ELSE Err(Unit)
        ELSE Err(Unit)

\* a write that refuses an out-of-bounds value after storing the bytes that fit
Memory_write_partial(self, ty, offset, value) ==
    LET dyn == memory_storage_of(self)
        mem_slice == as_slice(dyn, regions)
        fit == IF mem_slice.len > offset THEN mem_slice.len - offset ELSE 0
    IN  IF offset + size_of(ty) <= mem_slice.len
        THEN [ret |-> Ok(Unit),
              regions |-> [regions EXCEPT ![dyn.memory].data =
                              put_bytes(@, offset, into_le(ty, value))]]
        ELSE [ret |-> Err(Unit),
              regions |-> [regions EXCEPT ![dyn.memory].data =
                              put_bytes(@, offset, SubSeq(into_le(ty, value), 1, fit))]]

\* a write that stores the low byte of the value only
Memory_write_low_byte(self, ty, offset, value) ==
    LET dyn == memory_storage_of(self)
        mem_slice == as_slice(dyn, regions)
    IN  IF offset + size_of(ty) <= mem_slice.len
        THEN [ret |-> Ok(Unit),
              regions |-> [regions EXCEPT ![dyn.memory].data =
                              put_bytes(@, offset, SubSeq(into_le(ty, value), 1, 1))]]
        ELSE [ret |-> Err(Unit), regions |-> regions]

\* Memory::write::<T>(offset, value): the result and the mappings afterwards
Memory_write(self, ty, offset, value) ==
    LET dyn == memory_storage_of(self)
        mem_slice == as_slice(dyn, regions)
    IN  IF offset + size_of(ty) <= mem_slice.len
        THEN [ret |-> Ok(Unit),
              regions |-> [regions EXCEPT ![dyn.memory].data =
                              put_bytes(@, offset, into_le(ty, value))]]
        ELSE [ret |-> Err(Unit), regions |-> regions]

\* a usize is 64 bits wide and is held as its four 16-bit words, most
\* significant first: <<w3, w2, w1, w0>> is w3 * 2^48 + w2 * 2^32 + w1 * 2^16 + w0
usize_of(n) == <<0, 0, n \div 65536, n % 65536>>

\* the value of a usize below 2^31
usize_val(x) == x[3] * 65536 + x[4]

\* x <= y in usize
usize_le(x, y) ==
    \/ x = y
    \/ \E i \in 1..4 : x[i] < y[i] /\ \A j \in 1..(i - 1) : x[j] = y[j]

\* x * k in usize, k a size_of: the product modulo 2^64 and whether it wrapped
overflowing_mul(x, k) ==
    LET p0 == x[4] * k
        p1 == x[3] * k + p0 \div 65536
        p2 == x[2] * k + p1 \div 65536
        p3 == x[1] * k + p2 \div 65536
    IN  [val |-> <<p3 % 65536, p2 % 65536, p1 % 65536, p0 % 65536>>,
         overflow |-> p3 \div 65536 > 0]

\* x + y in usize: the sum modulo 2^64 and whether it wrapped
overflowing_add(x, y) ==
    LET s0 == x[4] + y[4]
        s1 == x[3] + y[3] + s0 \div 65536
        s2 == x[2] + y[2] + s1 \div 65536
        s3 == x[1] + y[1] + s2 \div 65536
    IN  [val |-> <<s3 % 65536, s2 % 65536, s1 % 65536, s0 % 65536>>,
         overflow |-> s3 \div 65536 > 0]

\* Memory::read_many::<T>(offset, count), count a usize held as its words.
\* count * size_of::<T>() and offset + bytes_size are usize arithmetic: a
\* build with overflow checks (checked) panics when either wraps, a build
\* without them goes on with the wrapped value, so a huge count can pass the
\* bounds test; the range offset..end then panics when it ends before it
\* starts.  The in-bounds bytes are viewed as a
\* slice of T by slice::from_raw_parts; the mapping is page-aligned, so at an
\* offset that is no multiple of the alignment of T the pointer is misaligned
\* and the behaviour is undefined, whatever the count: a build that checks
\* the precondition of from_raw_parts aborts the process, a build that does
\* not reads the values.  The values of a slice of T are native-endian, which
\* is little-endian on the hosts modelled.
Memory_read_many(self, ty, offset, count, checked) ==
    LET mem_slice == as_slice(memory_storage_of(self), regions)
        bytes_size == overflowing_mul(count, size_of(ty))
        end == overflowing_add(usize_of(offset), bytes_size.val)
        buffer_len == usize_val(end.val) - offset
        elem(i) == le_value(get_bytes(mem_slice.data, offset + (i - 1) * size_of(ty),
                                      size_of(ty)), 1)
    IN  IF checked /\ (bytes_size.overflow \/ end.overflow)
        THEN Aborted
        ELSE IF usize_le(end.val, usize_of(mem_slice.len))
             THEN IF buffer_len < 0 \/ (offset % size_of(ty) # 0 /\ checked)
                  THEN Aborted
                  ELSE Ok([i \in 1..(buffer_len \div size_of(ty)) |-> elem(i)])
             ELSE Err(Unit)

RECURSIVE flatten_le(_, _, _)
flatten_le(ty, values, i) ==
    IF i > Len(values) THEN <<>> ELSE into_le(ty, values[i]) \o flatten_le(ty, values, i + 1)

\* Memory::write_many::<T>(offset, values): the result and the mappings afterwards
Memory_write_many(self, ty, offset, values) ==
    LET dyn == memory_storage_of(self)
        mem_slice == as_slice(dyn, regions)
        bytes_size == Len(values) * size_of(ty)
    IN  IF offset + bytes_size <= mem_slice.len
        THEN [ret |-> Ok(Unit),
              regions |-> [regions EXCEPT ![dyn.memory].data =
                              put_bytes(@, offset, flatten_le(ty, values, 1))]]
        ELSE [ret |-> Err(Unit), regions |-> regions]

----------------------------------------------------------------------------
(* types, table, global, export, import: what the linker uses of them *)

TableDescriptor(min, max) == [element |-> "Anyfunc", minimum |-> min, maximum |-> max]
GlobalDescriptor(mutable, ty) == [mutable |-> mutable, ty |-> ty]

\* MemoryDescriptor::fits_in_imported / TableDescriptor::fits_in_imported:
\* the supplied descriptor fits in the expected one
memory_fits_in_imported(expected, imported) ==
    /\ imported.minimum >= expected.minimum
    /\ expected.maximum.tag = "Some" =>
          imported.maximum.tag = "Some" /\ imported.maximum.val <= expected.maximum.val
    /\ imported.shared = expected.shared

table_fits_in_imported(expected, imported) ==
    /\ imported.minimum >= expected.minimum
    /\ expected.maximum.tag = "Some" =>
          imported.maximum.tag = "Some" /\ imported.maximum.val <= expected.maximum.val
    /\ imported.element = expected.element

\* an empty table slot: no function, no context, no signature
EmptySlot == [func |-> "null", ctx |-> "null", sig_id |-> 0]

\* Table::new(desc): minimum empty entries
Table_new(desc) ==
    [elements |-> [i \in 1..desc.minimum |-> EmptySlot], max |-> desc.maximum]

\* Table::size
Table_size(cell) == Len(cell.elements)

\* a u32 beyond the integers of the model is held as its 16-bit halves
\* <<high, low>>; the usize it is, where the integers of the model hold it
as_usize(halves) == halves[1] * 65536 + halves[2]

\* base + len > limit in usize, for a u32 base held as its halves
exceeds(base, len, limit) ==
    LET room == limit - len
    IN  \/ room < 0
        \/ base[1] > room \div 65536
        \/ base[1] = room \div 65536 /\ base[2] > room % 65536

\* Table::grow(delta), delta a u32 held as its halves: the previous size, and
\* the table extended by delta empty entries; None, and the table as it was,
\* when the new size is no u32 or is beyond the maximum
Table_grow(cell, delta) ==
    LET size == Len(cell.elements)
        overflows == delta[1] + ((delta[2] + size) \div 65536) >= 65536
    IN  IF overflows \/ (cell.max.tag = "Some" /\ exceeds(delta, size, cell.max.val))
        THEN [ret |-> None, cell |-> cell]
        ELSE [ret |-> Some(size),
              cell |-> [cell EXCEPT !.elements =
                           @ \o [i \in 1..as_usize(delta) |-> EmptySlot]]]

\* Global::get
Global_get(global) == global.value

\* Table::descriptor, Table::vm_local_table, Global::descriptor, Global::vm_local_global
Table_descriptor(table) == table.desc
Table_vm_local_table(table) == <<"LocalTable", table.id>>
Global_descriptor(global) == global.desc
Global_vm_local_global(global) == <<"LocalGlobal", global.id>>

\* ImportObject::get_namespace(namespace).and_then(|ns| ns.get_export(name))
get_import(imports, namespace, name) ==
    IF namespace \in DOMAIN imports /\ name \in DOMAIN imports[namespace]
    THEN Some(imports[namespace][name])
    ELSE None

\* the kind name of an export, as the IncorrectImportType error reports it
export_type_name(export) == export.kind

----------------------------------------------------------------------------
(* backing.rs: the four import passes and ImportBacking::new *)

ImportNotFound(namespace, name) ==
    [error |-> "ImportNotFound", namespace |-> namespace, name |-> name]

IncorrectImportType(namespace, name, expected, found) ==
    [error |-> "IncorrectImportType", namespace |-> namespace, name |-> name,
     expected |-> expected, found |-> found]

IncorrectDescriptor(error, namespace, name, expected, found) ==
    [error |-> error, namespace |-> namespace, name |-> name,
     expected |-> expected, found |-> found]

\* an iteration that hands every import the context of the importing instance
import_function_own_ctx(module, imports, vmctx, index, acc) ==
    LET import_name == module.imported_functions[index]
        namespace == import_name.namespace
        name == import_name.name
        sig_index == module.func_assoc[index]
        expected_sig == module.sig_registry[sig_index]
        import == get_import(imports, namespace, name)
    IN  IF import.tag = "Some" /\ import.val.kind = "function"
        THEN IF expected_sig = import.val.signature
             THEN [acc EXCEPT !.functions = Append(@,
                       [func |-> import.val.func, vmctx |-> vmctx])]
             ELSE [acc EXCEPT !.link_errors = Append(@,
                       IncorrectDescriptor("IncorrectImportSignature", namespace, name,
                                           expected_sig, import.val.signature))]
        ELSE IF import.tag = "Some"
        THEN [acc EXCEPT !.link_errors = Append(@,
                  IncorrectImportType(namespace, name, "function",
                                      export_type_name(import.val)))]
        ELSE [acc EXCEPT !.link_errors = Append(@, ImportNotFound(namespace, name))]

\* one iteration of the loop of import_functions
import_function(module, imports, vmctx, index, acc) ==
    LET import_name == module.imported_functions[index]
        namespace == import_name.namespace
        name == import_name.name
        sig_index == module.func_assoc[index]
        expected_sig == module.sig_registry[sig_index]
        import == get_import(imports, namespace, name)
    IN  IF import.tag = "Some" /\ import.val.kind = "function"
        THEN IF expected_sig = import.val.signature
             THEN [acc EXCEPT !.functions = Append(@,
                       [func |-> import.val.func,
                        vmctx |-> IF import.val.ctx.tag = "External"
                                  THEN import.val.ctx.ptr
                                  ELSE vmctx])]
             ELSE [acc EXCEPT !.link_errors = Append(@,
                       IncorrectDescriptor("IncorrectImportSignature", namespace, name,
                                           expected_sig, import.val.signature))]
        ELSE IF import.tag = "Some"
        THEN [acc EXCEPT !.link_errors = Append(@,
                  IncorrectImportType(namespace, name, "function",
                                      export_type_name(import.val)))]
        ELSE [acc EXCEPT !.link_errors = Append(@, ImportNotFound(namespace, name))]

RECURSIVE import_functions_loop(_, _, _, _, _)
import_functions_loop(module, imports, vmctx, index, acc) ==
    IF index > Len(module.imported_functions) THEN acc
    ELSE import_functions_loop(module, imports, vmctx, index + 1,
                               import_function(module, imports, vmctx, index, acc))

import_functions(module, imports, vmctx) ==
    LET r == import_functions_loop(module, imports, vmctx, 1,
                                   [functions |-> <<>>, link_errors |-> <<>>])
    IN  IF Len(r.link_errors) > 0 THEN Err(r.link_errors) ELSE Ok(r.functions)

\* an iteration that reports an export of another kind as an import not found
import_memory_kind_as_missing(module, imports, index, acc) ==
    LET namespace == module.imported_memories[index][1].namespace
        name == module.imported_memories[index][1].name
        expected_memory_desc == module.imported_memories[index][2]
        memory_import == get_import(imports, namespace, name)
    IN  IF memory_import.tag = "Some" /\ memory_import.val.kind = "memory"
        THEN LET memory == memory_import.val.memory
             IN  IF memory_fits_in_imported(expected_memory_desc, Memory_descriptor(memory))
                 THEN [acc EXCEPT !.memories = Append(@, Memory_clone(memory)),
                                  !.vm_memories = Append(@, Memory_vm_local_memory(memory))]
                 ELSE [acc EXCEPT !.link_errors = Append(@,
                           IncorrectDescriptor("IncorrectMemoryDescriptor", namespace, name,
                                               expected_memory_desc,
                                               Memory_descriptor(memory)))]
        ELSE [acc EXCEPT !.link_errors = Append(@, ImportNotFound(namespace, name))]

\* an iteration that puts the record pointer at the front of vm_memories
import_memory_prepends(module, imports, index, acc) ==
    LET namespace == module.imported_memories[index][1].namespace
        name == module.imported_memories[index][1].name
        expected_memory_desc == module.imported_memories[index][2]
        memory_import == get_import(imports, namespace, name)
    IN  IF memory_import.tag = "Some" /\ memory_import.val.kind = "memory"
        THEN LET memory == memory_import.val.memory
             IN  IF memory_fits_in_imported(expected_memory_desc, Memory_descriptor(memory))
                 THEN [acc EXCEPT !.memories = Append(@, Memory_clone(memory)),
                                  !.vm_memories = <<Memory_vm_local_memory(memory)>> \o @]
                 ELSE [acc EXCEPT !.link_errors = Append(@,
                           IncorrectDescriptor("IncorrectMemoryDescriptor", namespace, name,
                                               expected_memory_desc,
                                               Memory_descriptor(memory)))]
        ELSE IF memory_import.tag = "Some"
        THEN [acc EXCEPT !.link_errors = Append(@,
                  IncorrectImportType(namespace, name, "memory",
                                      export_type_name(memory_import.val)))]
        ELSE [acc EXCEPT !.link_errors = Append(@, ImportNotFound(namespace, name))]

\* one iteration of the loop of import_memories
import_memory(module, imports, index, acc) ==
    LET namespace == module.imported_memories[index][1].namespace
        name == module.imported_memories[index][1].name
        expected_memory_desc == module.imported_memories[index][2]
        memory_import == get_import(imports, namespace, name)
    IN  IF memory_import.tag = "Some" /\ memory_import.val.kind = "memory"
        THEN LET memory == memory_import.val.memory
             IN  IF memory_fits_in_imported(expected_memory_desc, Memory_descriptor(memory))
                 THEN [acc EXCEPT !.memories = Append(@, Memory_clone(memory)),
                                  !.vm_memories = Append(@, Memory_vm_local_memory(memory))]
                 ELSE [acc EXCEPT !.link_errors = Append(@,
                           IncorrectDescriptor("IncorrectMemoryDescriptor", namespace, name,
                                               expected_memory_desc,
                                               Memory_descriptor(memory)))]
        ELSE IF memory_import.tag = "Some"
        THEN [acc EXCEPT !.link_errors = Append(@,
                  IncorrectImportType(namespace, name, "memory",
                                      export_type_name(memory_import.val)))]
        ELSE [acc EXCEPT !.link_errors = Append(@, ImportNotFound(namespace, name))]

RECURSIVE import_memories_loop(_, _, _, _)
import_memories_loop(module, imports, index, acc) ==
    IF index > Len(module.imported_memories) THEN acc
    ELSE import_memories_loop(module, imports, index + 1,
                              import_memory(module, imports, index, acc))

import_memories(module, imports) ==
    LET r == import_memories_loop(module, imports, 1,
                                  [memories |-> <<>>, vm_memories |-> <<>>,
                                   link_errors |-> <<>>])
    IN  IF Len(r.link_errors) > 0 THEN Err(r.link_errors)
        ELSE Ok([memories |-> r.memories, vm_memories |-> r.vm_memories])

\* an iteration that puts the table pointer at the front of vm_tables
import_table_prepends(module, imports, index, acc) ==
    LET namespace == module.imported_tables[index][1].namespace
        name == module.imported_tables[index][1].name
        expected_table_desc == module.imported_tables[index][2]
        table_import == get_import(imports, namespace, name)
    IN  IF table_import.tag = "Some" /\ table_import.val.kind = "table"
        THEN LET table == table_import.val.table
             IN  IF table_fits_in_imported(expected_table_desc, Table_descriptor(table))
                 THEN [acc EXCEPT !.vm_tables = <<Table_vm_local_table(table)>> \o @,
                                  !.tables = Append(@, table)]
                 ELSE [acc EXCEPT !.link_errors = Append(@,
                           IncorrectDescriptor("IncorrectTableDescriptor", namespace, name,
                                               expected_table_desc, Table_descriptor(table)))]
        ELSE IF table_import.tag = "Some"
        THEN [acc EXCEPT !.link_errors = Append(@,
                  IncorrectImportType(namespace, name, "table",
                                      export_type_name(table_import.val)))]
        ELSE [acc EXCEPT !.link_errors = Append(@, ImportNotFound(namespace, name))]

\* one iteration of the loop of import_tables
import_table(module, imports, index, acc) ==
    LET namespace == module.imported_tables[index][1].namespace
        name == module.imported_tables[index][1].name
        expected_table_desc == module.imported_tables[index][2]
        table_import == get_import(imports, namespace, name)
    IN  IF table_import.tag = "Some" /\ table_import.val.kind = "table"
        THEN LET table == table_import.val.table
             IN  IF table_fits_in_imported(expected_table_desc, Table_descriptor(table))
                 THEN [acc EXCEPT !.vm_tables = Append(@, Table_vm_local_table(table)),
                                  !.tables = Append(@, table)]
                 ELSE [acc EXCEPT !.link_errors = Append(@,
                           IncorrectDescriptor("IncorrectTableDescriptor", namespace, name,
                                               expected_table_desc, Table_descriptor(table)))]
        ELSE IF table_import.tag = "Some"
        THEN [acc EXCEPT !.link_errors = Append(@,
                  IncorrectImportType(namespace, name, "table",
                                      export_type_name(table_import.val)))]
        ELSE [acc EXCEPT !.link_errors = Append(@, ImportNotFound(namespace, name))]

RECURSIVE import_tables_loop(_, _, _, _)
import_tables_loop(module, imports, index, acc) ==
    IF index > Len(module.imported_tables) THEN acc
    ELSE import_tables_loop(module, imports, index + 1,
                            import_table(module, imports, index, acc))

import_tables(module, imports) ==
    LET r == import_tables_loop(module, imports, 1,
                                [tables |-> <<>>, vm_tables |-> <<>>, link_errors |-> <<>>])
    IN  IF Len(r.link_errors) > 0 THEN Err(r.link_errors)
        ELSE Ok([tables |-> r.tables, vm_tables |-> r.vm_tables])

\* an iteration that passes over a global nobody exports
import_global_skips_missing(module, imports, index, acc) ==
    LET namespace == module.imported_globals[index][1].namespace
        name == module.imported_globals[index][1].name
        imported_global_desc == module.imported_globals[index][2]
        import == get_import(imports, namespace, name)
    IN  IF import.tag = "Some" /\ import.val.kind = "global"
        THEN LET global == import.val.global
             IN  IF Global_descriptor(global) = imported_global_desc
                 THEN [acc EXCEPT !.vm_globals = Append(@, Global_vm_local_global(global)),
                                  !.globals = Append(@, global)]
                 ELSE [acc EXCEPT !.link_errors = Append(@,
                           IncorrectDescriptor("IncorrectGlobalDescriptor", namespace, name,
                                               imported_global_desc,
                                               Global_descriptor(global)))]
        ELSE IF import.tag = "Some"
        THEN [acc EXCEPT !.link_errors = Append(@,
                  IncorrectImportType(namespace, name, "global",
                                      export_type_name(import.val)))]
        ELSE acc

\* one iteration of the loop of import_globals
import_global(module, imports, index, acc) ==
    LET namespace == module.imported_globals[index][1].namespace
        name == module.imported_globals[index][1].name
        imported_global_desc == module.imported_globals[index][2]
        import == get_import(imports, namespace, name)
    IN  IF import.tag = "Some" /\ import.val.kind = "global"
        THEN LET global == import.val.global
             IN  IF Global_descriptor(global) = imported_global_desc
                 THEN [acc EXCEPT !.vm_globals = Append(@, Global_vm_local_global(global)),
                                  !.globals = Append(@, global)]
                 ELSE [acc EXCEPT !.link_errors = Append(@,
                           IncorrectDescriptor("IncorrectGlobalDescriptor", namespace, name,
                                               imported_global_desc,
                                               Global_descriptor(global)))]
        ELSE IF import.tag = "Some"
        THEN [acc EXCEPT !.link_errors = Append(@,
                  IncorrectImportType(namespace, name, "global",
                                      export_type_name(import.val)))]
        ELSE [acc EXCEPT !.link_errors = Append(@, ImportNotFound(namespace, name))]

RECURSIVE import_globals_loop(_, _, _, _)
import_globals_loop(module, imports, index, acc) ==
    IF index > Len(module.imported_globals) THEN acc
    ELSE import_globals_loop(module, imports, index + 1,
                             import_global(module, imports, index, acc))

import_globals(module, imports) ==
    LET r == import_globals_loop(module, imports, 1,
                                 [globals |-> <<>>, vm_globals |-> <<>>, link_errors |-> <<>>])
    IN  IF Len(r.link_errors) > 0 THEN Err(r.link_errors)
        ELSE Ok([globals |-> r.globals, vm_globals |-> r.vm_globals])

\* what unwrap_or_else adds to link_errors for the result of one pass
errors_of(result) == IF result.tag = "Err" THEN result.err ELSE <<>>

\* a linker that reports the table errors ahead of the memory errors
ImportBacking_new_tables_first(module, imports, vmctx) ==
    LET functions == import_functions(module, imports, vmctx)
        memories == import_memories(module, imports)
        tables == import_tables(module, imports)
        globals == import_globals(module, imports)
        failed == \/ functions.tag = "Err"
                  \/ memories.tag = "Err"
                  \/ tables.tag = "Err"
                  \/ globals.tag = "Err"
        link_errors == errors_of(functions) \o errors_of(tables)
                       \o errors_of(memories) \o errors_of(globals)
    IN  IF failed
        THEN Err(link_errors)
        ELSE Ok([memories |-> memories.val.memories,
                 tables |-> tables.val.tables,
                 globals |-> globals.val.globals,
                 vm_functions |-> functions.val,
                 vm_memories |-> memories.val.vm_memories,
                 vm_tables |-> tables.val.vm_tables,
                 vm_globals |-> globals.val.vm_globals])

\* ImportBacking::new(module, imports, vmctx)
ImportBacking_new(module, imports, vmctx) ==
    LET functions == import_functions(module, imports, vmctx)
        memories == import_memories(module, imports)
        tables == import_tables(module, imports)
        globals == import_globals(module, imports)
        failed == \/ functions.tag = "Err"
                  \/ memories.tag = "Err"
                  \/ tables.tag = "Err"
                  \/ globals.tag = "Err"
        link_errors == errors_of(functions) \o errors_of(memories)
                       \o errors_of(tables) \o errors_of(globals)
    IN  IF failed
        THEN Err(link_errors)
        ELSE Ok([memories |-> memories.val.memories,
                 tables |-> tables.val.tables,
                 globals |-> globals.val.globals,
                 vm_functions |-> functions.val,
                 vm_memories |-> memories.val.vm_memories,
                 vm_tables |-> tables.val.vm_tables,
                 vm_globals |-> globals.val.vm_globals])

----------------------------------------------------------------------------
(* backing.rs: LocalBacking::new *)

\* Initializer::Const(value) and Initializer::GetGlobal(index)
Const(ty, v) == [tag |-> "Const", value |-> [ty |-> ty, val |-> v]]
GetGlobal(index) == [tag |-> "GetGlobal", index |-> index]

\* index.local_or_import(module): the imported entities come first in an index space
local_or_import(index, imported) ==
    IF index <= imported
    THEN [tag |-> "Import", index |-> index]
    ELSE [tag |-> "Local", index |-> index - imported]

\* offset as u32, for an i32 offset: a negative offset wraps to offset + 2^32;
\* the result as its 16-bit halves <<high, low>>
as_u32(offset) ==
    IF offset >= 0
    THEN <<offset \div 65536, offset % 65536>>
    ELSE <<65536 + (offset \div 65536), offset % 65536>>

\* the match on init.base of finalize_memories and finalize_tables: the base
\* as u32, held as its halves
init_base_of(base, imports) ==
    IF base.tag = "Const"
    THEN IF base.value.ty = "I32"
         THEN Ok(as_u32(base.value.val))
         ELSE Err("a const initializer must be the i32 type")
    ELSE LET x == Global_get(imports.globals[base.index])
         IN  IF x.ty = "I32"
             THEN Ok(as_u32(x.val))
             ELSE Err("unsupported global type for initialzer")

\* the construction under way: the heap as LocalBacking::new has left it so
\* far, the maps built so far, the panic that ended it ("" for none), the
\* number of data initializers gone through, and the tables as each element
\* initializer left them
panicked(lb, message) == [lb EXCEPT !.panic = message]

\* generate_memories from the i-th local memory on
RECURSIVE generate_memories_from(_, _, _, _, _)
generate_memories_from(module, i, lb, allocOk, protectOk) ==
    IF i > Len(module.memories) \/ lb.panic # ""
    THEN lb
    ELSE LET desc == module.memories[i]
             cell == Len(lb.storages) + 1
             box == Len(lb.vm_local) + 1
             r == Memory_new(desc, NullLocal, lb.regions, fresh_addr(lb.regions),
                             cell, allocOk, protectOk)
         IN  IF r.ret.tag # "Ok"
             THEN panicked(lb, IF r.ret.tag = "Abort" THEN "not yet implemented"
                                                      ELSE "unable to create memory")
             ELSE generate_memories_from(module, i + 1,
                     [lb EXCEPT !.regions = r.regions,
                                !.storages = Append(@, [memory_storage |-> r.ret.val,
                                                        local |-> box]),
                                !.vm_local = Append(@, r.local),
                                !.memories = Append(@, [desc |-> desc, storage |-> cell])],
                     allocOk, protectOk)

\* LocalBacking::generate_memories
generate_memories(module, lb, allocOk, protectOk) ==
    generate_memories_from(module, 1, lb, allocOk, protectOk)

\* mem.write_many(init_base, &init.data) on the memory of a local handle
write_many_local(lb, mem, offset, data) ==
    LET dyn == lb.storages[mem.storage].memory_storage.val
        mem_slice == as_slice(dyn, lb.regions)
    IN  IF offset + Len(data) <= mem_slice.len
        THEN [lb EXCEPT !.regions[dyn.memory].data = put_bytes(@, offset, data)]
        ELSE panicked(lb, "called Result::unwrap() on an Err value")

\* a write through the raw record that replaces what the memory held
write_imported_clears(lb, local_memory, init_base, data) ==
    IF exceeds(init_base, Len(data), local_memory.bound)
    THEN panicked(lb, "index out of range for slice")
    ELSE [lb EXCEPT !.regions[local_memory.base].data =
             put_bytes(EmptyBytes, as_usize(init_base), data)]

\* memory_slice[init_base..init_base + len].copy_from_slice(&init.data) on the
\* slice base .. base + bound of the imported memory's vm::LocalMemory
write_imported(lb, local_memory, init_base, data) ==
    IF exceeds(init_base, Len(data), local_memory.bound)
    THEN panicked(lb, "index out of range for slice")
    ELSE [lb EXCEPT !.regions[local_memory.base].data =
             put_bytes(@, as_usize(init_base), data)]

\* one iteration of the loop of finalize_memories
apply_data_initializer(module, imports, lb, init) ==
    IF lb.panic # "" \/ Len(init.data) = 0
    THEN lb
    ELSE LET init_base == init_base_of(init.base, imports)
             target == local_or_import(init.memory_index, Len(module.imported_memories))
         IN  IF init_base.tag = "Err"
             THEN panicked(lb, init_base.err)
             ELSE IF target.tag = "Local"
             THEN LET memory_desc == module.memories[target.index]
                  IN  IF ~exceeds(init_base.val, Len(init.data), bytes(memory_desc.minimum))
                      THEN write_many_local(lb, lb.memories[target.index],
                                            as_usize(init_base.val), init.data)
                      ELSE panicked(lb, "assertion failed")
             ELSE write_imported(lb, lb.vm_local[imports.vm_memories[target.index]],
                                 init_base.val, init.data)

RECURSIVE apply_data_initializers(_, _, _, _)
apply_data_initializers(module, imports, lb, i) ==
    IF i > Len(module.data_initializers) \/ lb.panic # ""
    THEN lb
    ELSE LET next == apply_data_initializer(module, imports, lb, module.data_initializers[i])
         IN  apply_data_initializers(module, imports,
                IF next.panic = "" THEN [next EXCEPT !.data_done = i] ELSE next, i + 1)

\* the data initializers taken last to first
RECURSIVE apply_data_initializers_reversed(_, _, _, _)
apply_data_initializers_reversed(module, imports, lb, i) ==
    IF i < 1
    THEN lb
    ELSE apply_data_initializers_reversed(module, imports,
            apply_data_initializer(module, imports, lb, module.data_initializers[i]), i - 1)

\* finalize_memories with the loop run backwards
finalize_memories_reversed(module, imports, lb) ==
    LET done == apply_data_initializers_reversed(module, imports, lb,
                                                 Len(module.data_initializers))
    IN  IF done.panic # ""
        THEN done
        ELSE [done EXCEPT !.vm_memories =
                 [i \in 1..Len(done.memories) |-> done.storages[done.memories[i].storage].local]]

\* LocalBacking::finalize_memories
finalize_memories(module, imports, lb) ==
    LET done == apply_data_initializers(module, imports, lb, 1)
    IN  IF done.panic # ""
        THEN done
        ELSE [done EXCEPT !.vm_memories =
                 [i \in 1..Len(done.memories) |-> done.storages[done.memories[i].storage].local]]

\* LocalBacking::generate_tables
generate_tables(module, lb) ==
    IF lb.panic # ""
    THEN lb
    ELSE [lb EXCEPT !.table_cells = @ \o [i \in 1..Len(module.tables) |->
                                             Table_new(module.tables[i])],
                    !.tables = [i \in 1..Len(module.tables) |->
                                   [desc |-> module.tables[i], id |-> Len(lb.table_cells) + i]]]

\* a grow to the size the initializer ends at, by that whole size
grow_by_top(cell, init_base, len) ==
    IF exceeds(init_base, len, Len(cell.elements))
    THEN LET low == init_base[2] + len
         IN  Table_grow(cell, <<(init_base[1] + (low \div 65536)) % 65536, low % 65536>>)
    ELSE [ret |-> Some(Len(cell.elements)), cell |-> cell]

\* if table.size() < init_base + len { table.grow(delta as u32) }, with
\* delta = (init_base + len) - table.size() in usize: the cast keeps its low
\* 32 bits
grow_if_too_small(cell, init_base, len) ==
    IF exceeds(init_base, len, Table_size(cell))
    THEN LET low == init_base[2] + len - Table_size(cell)
             delta == <<(init_base[1] + (low \div 65536)) % 65536, low % 65536>>
         IN  Table_grow(cell, delta)
    ELSE [ret |-> Some(Table_size(cell)), cell |-> cell]

\* an entry that takes the context of the instance for every function
anyfunc_of_own_ctx(module, imports, vmctx, func_index) ==
    LET sig_index == module.func_assoc[func_index]
        target == local_or_import(func_index, Len(module.imported_functions))
    IN  [func |-> IF target.tag = "Local"
                  THEN module.func_resolver[target.index]
                  ELSE imports.vm_functions[target.index].func,
         ctx |-> vmctx,
         sig_id |-> sig_index]

\* the vm::Anyfunc { func, ctx, sig_id } written for func_index
anyfunc_of(module, imports, vmctx, func_index) ==
    LET sig_index == module.func_assoc[func_index]
        sig_id == sig_index
        target == local_or_import(func_index, Len(module.imported_functions))
    IN  IF target.tag = "Local"
        THEN [func |-> module.func_resolver[target.index], ctx |-> vmctx, sig_id |-> sig_id]
        ELSE LET imported == imports.vm_functions[target.index]
             IN  [func |-> imported.func, ctx |-> imported.vmctx, sig_id |-> sig_id]

\* table.anyfunc_direct_access_mut(|elements| elements[init_base + i] = ...)
write_anyfuncs(module, imports, vmctx, cell, init_base, elements) ==
    [cell EXCEPT !.elements =
        [slot \in 1..Len(@) |->
            IF init_base < slot /\ slot <= init_base + Len(elements)
            THEN anyfunc_of(module, imports, vmctx, elements[slot - init_base])
            ELSE @[slot]]]

\* one iteration of the loop of finalize_tables
apply_elem_initializer(module, imports, vmctx, lb, init) ==
    IF lb.panic # ""
    THEN lb
    ELSE LET init_base == init_base_of(init.base, imports)
             target == local_or_import(init.table_index, Len(module.imported_tables))
             table == IF target.tag = "Local"
                      THEN lb.tables[target.index]
                      ELSE imports.tables[target.index]
         IN  IF init_base.tag = "Err"
             THEN panicked(lb, init_base.err)
             ELSE LET grown == grow_if_too_small(lb.table_cells[table.id], init_base.val,
                                                 Len(init.elements))
                  IN  IF grown.ret.tag = "None"
                      THEN panicked(lb, "couldn't grow table")
                      ELSE IF /\ Len(init.elements) > 0
                              /\ exceeds(init_base.val, Len(init.elements),
                                         Table_size(grown.cell))
                      THEN panicked([lb EXCEPT !.table_cells[table.id] = grown.cell],
                                    "index out of bounds")
                      ELSE LET written == write_anyfuncs(module, imports, vmctx, grown.cell,
                                                         as_usize(init_base.val),
                                                         init.elements)
                               cells == [lb.table_cells EXCEPT ![table.id] = written]
                           IN  [lb EXCEPT !.table_cells = cells,
                                          !.elem_steps = Append(@, cells)]

RECURSIVE apply_elem_initializers(_, _, _, _, _)
apply_elem_initializers(module, imports, vmctx, lb, i) ==
    IF i > Len(module.elem_initializers)
    THEN lb
    ELSE apply_elem_initializers(module, imports, vmctx,
            apply_elem_initializer(module, imports, vmctx, lb, module.elem_initializers[i]),
            i + 1)

\* LocalBacking::finalize_tables
finalize_tables(module, imports, lb, vmctx) ==
    LET start == IF lb.panic = "" THEN [lb EXCEPT !.elem_steps = <<lb.table_cells>>] ELSE lb
        done == apply_elem_initializers(module, imports, vmctx, start, 1)
    IN  IF done.panic # ""
        THEN done
        ELSE [done EXCEPT !.vm_tables =
                 [i \in 1..Len(done.tables) |-> Table_vm_local_table(done.tables[i])]]

\* LocalBacking::generate_globals; a local global is numbered after the
\* imported ones
generate_globals(module, imports, lb) ==
    IF lb.panic # ""
    THEN lb
    ELSE [lb EXCEPT !.globals =
             [i \in 1..Len(module.globals) |->
                 LET global_init == module.globals[i]
                     value == IF global_init.init.tag = "Const"
                              THEN global_init.init.value
                              ELSE Global_get(imports.globals[global_init.init.index])
                 IN  [desc |-> [mutable |-> global_init.desc.mutable, ty |-> value.ty],
                      id |-> Len(imports.globals) + i,
                      value |-> value]]]

\* LocalBacking::finalize_globals
finalize_globals(lb) ==
    IF lb.panic # ""
    THEN lb
    ELSE [lb EXCEPT !.vm_globals =
             [i \in 1..Len(lb.globals) |-> Global_vm_local_global(lb.globals[i])]]

\* the unwinding of a panic: the local memories and tables built so far are
\* dropped, whatever was reached through the imports stays as it is
unwind(before, lb) ==
    LET mapped == {lb.storages[k].memory_storage.val.memory :
                      k \in (Len(before.storages) + 1)..Len(lb.storages)}
    IN  [regions |-> [a \in Addr |-> IF a \in mapped THEN FreeRegion ELSE lb.regions[a]],
         storages |-> before.storages,
         vm_local |-> before.vm_local,
         table_cells |-> [id \in 1..Len(before.table_cells) |-> lb.table_cells[id]]]

\* what a construction starts from
starting(before) ==
    [regions |-> before.regions, storages |-> before.storages,
     vm_local |-> before.vm_local, table_cells |-> before.table_cells,
     panic |-> "", data_done |-> 0, elem_steps |-> <<>>,
     memories |-> <<>>, tables |-> <<>>, globals |-> <<>>,
     vm_memories |-> <<>>, vm_tables |-> <<>>, vm_globals |-> <<>>]

\* what a construction leaves: the backing or the panic, and the heap
finished(before, lb) ==
    IF lb.panic # ""
    THEN [ret |-> Err(lb.panic), heap |-> unwind(before, lb),
          data_done |-> lb.data_done, elem_steps |-> lb.elem_steps]
    ELSE [ret |-> Ok([memories |-> lb.memories, tables |-> lb.tables,
                      globals |-> lb.globals, vm_memories |-> lb.vm_memories,
                      vm_tables |-> lb.vm_tables, vm_globals |-> lb.vm_globals]),
          heap |-> [regions |-> lb.regions, storages |-> lb.storages,
                    vm_local |-> lb.vm_local, table_cells |-> lb.table_cells],
          data_done |-> lb.data_done, elem_steps |-> lb.elem_steps]

\* a construction that undoes, on a panic, what it wrote through the imports
LocalBacking_new_rolls_back(module, imports, vmctx, before, allocOk, protectOk) ==
    LET memories == generate_memories(module, starting(before), allocOk, protectOk)
        tables == generate_tables(module, memories)
        globals == generate_globals(module, imports, tables)
        vm_memories == finalize_memories(module, imports, globals)
        vm_tables == finalize_tables(module, imports, vm_memories, vmctx)
        vm_globals == finalize_globals(vm_tables)
    IN  IF vm_globals.panic # ""
        THEN [ret |-> Err(vm_globals.panic), heap |-> before,
              data_done |-> vm_globals.data_done, elem_steps |-> vm_globals.elem_steps]
        ELSE finished(before, vm_globals)

\* LocalBacking::new(module, imports, vmctx)
LocalBacking_new(module, imports, vmctx, before, allocOk, protectOk) ==
    LET memories == generate_memories(module, starting(before), allocOk, protectOk)
        tables == generate_tables(module, memories)
        globals == generate_globals(module, imports, tables)
        vm_memories == finalize_memories(module, imports, globals)
        vm_tables == finalize_tables(module, imports, vm_memories, vmctx)
        vm_globals == finalize_globals(vm_tables)
    IN  finished(before, vm_globals)

----------------------------------------------------------------------------
(* Inputs the embedder may pass *)

Descriptors ==
    {Descriptor(min, max) :
        min \in 0..MaxPages,
        max \in {None} \cup {Some(n) : n \in 0..MaxPages}}
    \cup {[Descriptor(1, Some(1)) EXCEPT !.shared = TRUE]}

Deltas == 0..MaxPages

\* a delta at the top of the u32 range, as <<hi, lo>>: u32::MAX
HugeDeltas == {<<65535, 65535>>}

Offsets == {WASM_PAGE_SIZE - 1}

ValuesOf(ty) == IF ty = "u8" THEN {1} ELSE {258}

ManyValues == {<<>>, <<2, 1>>}

\* the counts of read_many, as usize words: 0, 2, 2^63, 2^63 + 1, usize::MAX
Counts ==
    { usize_of(0), usize_of(2), <<32768, 0, 0, 0>>, <<32768, 0, 0, 1>>,
      <<65535, 65535, 65535, 65535>> }

\* the closures passed to direct_access_mut: |s: &mut [u8]| s[0] = 7 and
\* |s: &mut [u16]| s[32767] = 258, the last u16 of the first page
DirectWrites ==
    { [ty |-> "u8", index |-> 0, value |-> 7],
      [ty |-> "u16", index |-> 32767, value |-> 258] }

\* the signatures of the registry, by SigIndex
Signatures ==
    << [params |-> <<"I32">>, returns |-> <<"I32">>],
       [params |-> <<>>, returns |-> <<>>] >>

Names == {"a", "b"}

FunctionExports ==
    { [kind |-> "function", func |-> "host_fn",
       ctx |-> [tag |-> "External", ptr |-> "host_ctx"], signature |-> Signatures[1]],
      [kind |-> "function", func |-> "inner_fn",
       ctx |-> [tag |-> "Internal"], signature |-> Signatures[1]] }

MemoryExport(self) == [kind |-> "memory", memory |-> Memory_clone(self)]

TableExports ==
    { [kind |-> "table", table |-> [desc |-> TableDescriptor(2, None), id |-> id]] :
         id \in 1..2 }

GlobalExports ==
    { [kind |-> "global", global |-> [desc |-> GlobalDescriptor(FALSE, "I32"), id |-> 1]] }

\* what a module may expect of an import of each kind
Expectations(kind) ==
    CASE kind = "function" -> {1, 2}
      [] kind = "memory" -> {Descriptor(0, None), Descriptor(1, Some(1))}
      [] kind = "table" -> {TableDescriptor(1, None), TableDescriptor(3, None)}
      [] kind = "global" -> {GlobalDescriptor(FALSE, "I32"), GlobalDescriptor(TRUE, "I32")}

Kinds == {"function", "memory", "table", "global"}

\* the import section of a module: declarations of any kind, in declaration order
DeclsOf(kinds, names) ==
    UNION { [kind : {k}, namespace : {"env"}, name : names, expect : Expectations(k)] :
            k \in kinds }

DeclLists(kinds, names, n) == UNION { [1..k -> DeclsOf(kinds, names)] : k \in 0..n }

of_kind(decls, kind) == SelectSeq(decls, LAMBDA d : d.kind = kind)

import_name(d) == [namespace |-> d.namespace, name |-> d.name]

\* the ModuleInner a list of import declarations compiles to
ModuleOf(decls) ==
    LET fs == of_kind(decls, "function")
        ms == of_kind(decls, "memory")
        ts == of_kind(decls, "table")
        gs == of_kind(decls, "global")
    IN  [imported_functions |-> [i \in 1..Len(fs) |-> import_name(fs[i])],
         func_assoc |-> [i \in 1..Len(fs) |-> fs[i].expect],
         sig_registry |-> Signatures,
         imported_memories |-> [i \in 1..Len(ms) |-> <<import_name(ms[i]), ms[i].expect>>],
         imported_tables |-> [i \in 1..Len(ts) |-> <<import_name(ts[i]), ts[i].expect>>],
         imported_globals |-> [i \in 1..Len(gs) |-> <<import_name(gs[i]), gs[i].expect>>],
         decls |-> decls]

\* the import objects an embedder can build from the exports at hand: none at
\* all, or a namespace "env" binding some of the names
ImportObjects(names, exports) ==
    {[ns \in {} |-> 0]} \cup
    UNION { {[ns \in {"env"} |-> env] : env \in [bound -> exports]} : bound \in SUBSET names }

VmCtx == "vmctx"

----------------------------------------------------------------------------
(* State *)

NoBacking == [tag |-> "None"]

handle_set == {handles[i] : i \in DOMAIN handles}

\* every Memory handle alive: the embedder's and the ones the backing stores
AllHandles ==
    handle_set \cup
    (IF backing.tag = "Some"
     THEN {backing.val.memories[i] : i \in DOMAIN backing.val.memories}
     ELSE {})

\* history of typed writes: the facts a write on [off, off + n) of a storage retires
overlaps(f, storage, off, n) ==
    f.storage = storage /\ f.offset < off + n /\ off < f.offset + f.len

\* the process has not been aborted
running == last_op # "abort"

Init ==
    /\ regions = [a \in Addr |-> FreeRegion]
    /\ storages = <<>>
    /\ vm_local = <<>>
    /\ handles = <<>>
    /\ backing = NoBacking
    /\ table_cells = <<>>
    /\ last_op = "init"
    /\ last = [ret |-> Unit]
    /\ wrote = {}

----------------------------------------------------------------------------
(* Operations of the embedder on memories *)

\* Memory::new(desc).  Memories share nothing with one another, so the run
\* follows one memory and every handle on it.
New(desc) ==
    /\ running
    /\ storages = <<>>
    /\ \E allocOk \in BOOLEAN, protectOk \in BOOLEAN :
          LET cell == Len(storages) + 1
              box == Len(vm_local) + 1
              r == Memory_new(desc, NullLocal, regions, fresh_addr(regions), cell,
                              allocOk, protectOk)
          IN  IF r.ret.tag # "Ok"
              THEN /\ last_op' = IF r.ret.tag = "Abort" THEN "abort" ELSE "new"
                   /\ last' = [ret |-> r.ret]
                   /\ UNCHANGED <<regions, storages, vm_local, handles>>
              ELSE /\ regions' = r.regions
                   /\ storages' = Append(storages, [memory_storage |-> r.ret.val,
                                                    local |-> box])
                   /\ vm_local' = Append(vm_local, r.local)
                   /\ handles' = Append(handles, [desc |-> desc, storage |-> cell])
                   /\ last_op' = "new"
                   /\ last' = [ret |-> Ok([desc |-> desc, storage |-> cell])]
    /\ UNCHANGED <<table_cells, backing, wrote>>

\* memory.clone()
Clone(self) ==
    /\ running
    /\ Len(handles) < MaxHandles
    /\ handles' = Append(handles, Memory_clone(self))
    /\ last_op' = "clone"
    /\ last' = [ret |-> Memory_clone(self)]
    /\ UNCHANGED <<table_cells, regions, storages, vm_local, backing, wrote>>

\* memory.grow(delta)
Grow(self, delta) ==
    /\ running
    /\ \E allocOk \in BOOLEAN, protectOk \in BOOLEAN :
          LET cell == storages[self.storage]
              r == Memory_grow(cell.memory_storage, delta, vm_local[cell.local],
                               regions, fresh_addr(regions), allocOk, protectOk)
          IN  /\ storages' = [storages EXCEPT ![self.storage].memory_storage = r.self]
              /\ vm_local' = [vm_local EXCEPT ![cell.local] = r.local]
              /\ regions' = r.regions
              /\ last_op' = "grow"
              /\ last' = [ret |-> r.ret]
    /\ wrote' = {f \in wrote : f.storage # self.storage}
    /\ UNCHANGED <<table_cells, handles, backing>>

\* memory.grow(delta) for a delta at the top of the u32 range, delta = <<hi, lo>>
GrowHuge(self, delta) ==
    /\ running
    /\ \E allocOk \in BOOLEAN, protectOk \in BOOLEAN :
          LET cell == storages[self.storage]
              r == Memory_grow_halves(cell.memory_storage, delta[1], delta[2],
                                      vm_local[cell.local], regions,
                                      fresh_addr(regions), allocOk, protectOk)
          IN  /\ storages' = [storages EXCEPT ![self.storage].memory_storage = r.self]
              /\ vm_local' = [vm_local EXCEPT ![cell.local] = r.local]
              /\ regions' = r.regions
              /\ last_op' = "grow"
              /\ last' = [ret |-> r.ret]
    /\ wrote' = {f \in wrote : f.storage # self.storage}
    /\ UNCHANGED <<table_cells, handles, backing>>

\* memory.size()
Size(self) ==
    /\ running
    /\ last_op' = "size"
    /\ last' = [ret |-> Memory_size(self)]
    /\ UNCHANGED <<table_cells, regions, storages, vm_local, handles, backing, wrote>>

\* memory.read::<T>(offset)
Read(self, ty, offset) ==
    /\ running
    /\ last_op' = "read"
    /\ last' = [ret |-> Memory_read(self, ty, offset)]
    /\ UNCHANGED <<table_cells, regions, storages, vm_local, handles, backing, wrote>>

\* memory.write::<T>(offset, value)
Write(self, ty, offset, value) ==
    LET r == Memory_write(self, ty, offset, value)
        fact == [storage |-> self.storage, many |-> FALSE, ty |-> ty, offset |-> offset,
                 len |-> size_of(ty), value |-> value]
    IN  /\ running
        /\ regions' = r.regions
        /\ last_op' = "write"
        /\ last' = [ret |-> r.ret]
        /\ wrote' = IF r.ret.tag = "Ok"
                    THEN {f \in wrote : ~overlaps(f, self.storage, offset, size_of(ty))}
                         \cup {fact}
                    ELSE wrote
        /\ UNCHANGED <<table_cells, storages, vm_local, handles, backing>>

\* memory.read_many::<T>(offset, count)
ReadMany(self, ty, offset, count) ==
    /\ running
    /\ \E checked \in BOOLEAN :
          LET r == Memory_read_many(self, ty, offset, count, checked)
          IN  /\ last_op' = IF r.tag = "Abort" THEN "abort" ELSE "read_many"
              /\ last' = [ret |-> r]
    /\ UNCHANGED <<table_cells, regions, storages, vm_local, handles, backing, wrote>>

\* memory.write_many::<T>(offset, values)
WriteMany(self, ty, offset, values) ==
    LET r == Memory_write_many(self, ty, offset, values)
        n == Len(values) * size_of(ty)
        fact == [storage |-> self.storage, many |-> TRUE, ty |-> ty, offset |-> offset,
                 len |-> n, value |-> values]
    IN  /\ running
        /\ regions' = r.regions
        /\ last_op' = "write_many"
        /\ last' = [ret |-> r.ret]
        /\ wrote' = IF r.ret.tag = "Ok"
                    THEN {f \in wrote : ~overlaps(f, self.storage, offset, n)} \cup {fact}
                    ELSE wrote
        /\ UNCHANGED <<table_cells, storages, vm_local, handles, backing>>

\* memory.direct_access_mut::<T>(|s| s[index] = value)
DirectAccessMut(self, ty, index, value) ==
    LET r == Memory_direct_access_mut(self, ty, index, value)
    IN  /\ running
        /\ regions' = r.regions
        /\ last_op' = IF r.ret.tag = "Abort" THEN "abort" ELSE "direct_access_mut"
        /\ last' = [ret |-> r.ret]
        /\ wrote' = IF r.ret.tag = "Ok"
                    THEN {f \in wrote : ~overlaps(f, self.storage, index * size_of(ty),
                                                  size_of(ty))}
                    ELSE wrote
        /\ UNCHANGED <<table_cells, storages, vm_local, handles, backing>>

\* instantiation up to the import backing: ImportBacking::new(module, imports, vmctx);
\* the instance the embedder held before is dropped
Link(module, imports, vmctx) ==
    LET r == ImportBacking_new(module, imports, vmctx)
    IN  /\ running
        /\ backing' = IF r.tag = "Ok" THEN Some(r.val) ELSE NoBacking
        /\ last_op' = "link"
        /\ last' = [module |-> module, imports |-> imports,
                    vmctx |-> vmctx, ret |-> r]
        /\ UNCHANGED <<table_cells, regions, storages, vm_local, handles, wrote>>

Next ==
    \/ \E desc \in Descriptors : New(desc)
    \/ \E self \in AllHandles : Clone(self)
    \/ \E self \in AllHandles, delta \in Deltas : Grow(self, delta)
    \/ \E self \in AllHandles, delta \in HugeDeltas : GrowHuge(self, delta)
    \/ \E self \in AllHandles : Size(self)
    \/ \E self \in AllHandles, ty \in ValueTypes, offset \in Offsets : Read(self, ty, offset)
    \/ \E self \in AllHandles, ty \in ValueTypes, offset \in Offsets :
          \E value \in ValuesOf(ty) : Write(self, ty, offset, value)
    \/ \E self \in AllHandles, ty \in ValueTypes, offset \in Offsets, count \in Counts :
          ReadMany(self, ty, offset, count)
    \/ \E self \in AllHandles, offset \in Offsets, values \in ManyValues :
          WriteMany(self, "u8", offset, values)
    \/ \E self \in AllHandles, write \in DirectWrites :
          DirectAccessMut(self, write.ty, write.index, write.value)
    \/ \E decls \in DeclLists({"memory"}, {"a"}, 1) :
          \E imports \in ImportObjects({"a"}, {MemoryExport(h) : h \in handle_set}) :
             Link(ModuleOf(decls), imports, VmCtx)

Spec == Init /\ [][Next]_vars

----------------------------------------------------------------------------
(* The linker on its own: two memories exist, the embedder links modules *)

InitLink ==
    LET m1 == Memory_new(Descriptor(0, None), NullLocal,
                         [a \in Addr |-> FreeRegion], 1, 1, TRUE, TRUE)
        m2 == Memory_new(Descriptor(1, Some(1)), NullLocal,
                         m1.regions, 2, 2, TRUE, TRUE)
    IN  /\ regions = m2.regions
        /\ storages = << [memory_storage |-> m1.ret.val, local |-> 1],
                         [memory_storage |-> m2.ret.val, local |-> 2] >>
        /\ vm_local = <<m1.local, m2.local>>
        /\ handles = << [desc |-> Descriptor(0, None), storage |-> 1],
                        [desc |-> Descriptor(1, Some(1)), storage |-> 2] >>
        /\ backing = NoBacking
        /\ table_cells = [id \in 1..2 |-> Table_new(TableDescriptor(2, None))]
        /\ last_op = "init"
        /\ last = [ret |-> Unit]
        /\ wrote = {}

LinkExports ==
    FunctionExports \cup {MemoryExport(h) : h \in handle_set}
    \cup TableExports \cup GlobalExports

\* the one instantiation of a run
LinkOnce ==
    /\ last_op = "init"
    /\ \E decls \in DeclLists(Kinds, Names, MaxDecls) :
          \E imports \in ImportObjects(Names, LinkExports) :
             Link(ModuleOf(decls), imports, VmCtx)

\* a memory the instance imports, reached through the embedder's handle or the
\* copy the backing holds
Linked(self) ==
    /\ backing.tag = "Some"
    /\ \E i \in DOMAIN backing.val.memories : backing.val.memories[i].storage = self.storage

NextLink ==
    \/ LinkOnce
    \/ \E self \in AllHandles, delta \in Deltas : Linked(self) /\ Grow(self, delta)
    \/ \E self \in AllHandles : Linked(self) /\ Size(self)
    \/ \E self \in AllHandles, ty \in ValueTypes, offset \in Offsets :
          Linked(self) /\ Read(self, ty, offset)
    \/ \E self \in AllHandles, ty \in ValueTypes, offset \in Offsets :
          \E value \in ValuesOf(ty) : Linked(self) /\ Write(self, ty, offset, value)

SpecLink == InitLink /\ [][NextLink]_vars

----------------------------------------------------------------------------
(* Instantiation: a module with imports of every kind, a local memory, a
   local table and initializers is linked and its LocalBacking is built *)

MaxDataInits == 2
MaxElemInits == 2

\* the import section of the instantiated module: two functions, a memory of
\* at least one page, a table, two globals
InstDecls ==
    << [kind |-> "function", namespace |-> "env", name |-> "host", expect |-> 1],
       [kind |-> "function", namespace |-> "env", name |-> "inner", expect |-> 1],
       [kind |-> "memory", namespace |-> "env", name |-> "mem",
        expect |-> Descriptor(1, None)],
       [kind |-> "table", namespace |-> "env", name |-> "tab",
        expect |-> TableDescriptor(2, Some(3))],
       [kind |-> "global", namespace |-> "env", name |-> "base",
        expect |-> GlobalDescriptor(FALSE, "I32")],
       [kind |-> "global", namespace |-> "env", name |-> "wide",
        expect |-> GlobalDescriptor(FALSE, "I64")] >>

\* an entry an earlier instance left in the embedder's table
PriorEntry == [func |-> "old_fn", ctx |-> "old_ctx", sig_id |-> 2]

\* what the embedder supplies: its two functions, its memory of two pages, its
\* table and its globals
InstImports ==
    [ns \in {"env"} |->
        [name \in {"host", "inner", "mem", "tab", "base", "wide"} |->
            CASE name = "host" ->
                    [kind |-> "function", func |-> "host_fn",
                     ctx |-> [tag |-> "External", ptr |-> "host_ctx"],
                     signature |-> Signatures[1]]
              [] name = "inner" ->
                    [kind |-> "function", func |-> "inner_fn",
                     ctx |-> [tag |-> "Internal"], signature |-> Signatures[1]]
              [] name = "mem" -> MemoryExport(handles[1])
              [] name = "tab" ->
                    [kind |-> "table",
                     table |-> [desc |-> TableDescriptor(2, Some(3)), id |-> 1]]
              [] name = "base" ->
                    [kind |-> "global",
                     global |-> [desc |-> GlobalDescriptor(FALSE, "I32"), id |-> 1,
                                 value |-> [ty |-> "I32", val |-> WASM_PAGE_SIZE - 1]]]
              [] OTHER ->
                    [kind |-> "global",
                     global |-> [desc |-> GlobalDescriptor(FALSE, "I64"), id |-> 2,
                                 value |-> [ty |-> "I64", val |-> 0]]]]]

\* memory index 1 is the imported memory (declared minimum one page, two pages
\* supplied), memory index 2 the local memory of one page
DataInitializers ==
    { [memory_index |-> 1, base |-> Const("I32", WASM_PAGE_SIZE - 2), data |-> <<1, 2>>],
      [memory_index |-> 1, base |-> Const("I32", WASM_PAGE_SIZE - 1), data |-> <<3>>],
      [memory_index |-> 1, base |-> GetGlobal(1), data |-> <<9, 9>>],
      [memory_index |-> 1, base |-> Const("I32", 2 * WASM_PAGE_SIZE - 1), data |-> <<4, 4>>],
      [memory_index |-> 1, base |-> Const("I32", -1), data |-> <<9>>],
      [memory_index |-> 2, base |-> Const("I32", WASM_PAGE_SIZE - 2), data |-> <<5, 6>>],
      [memory_index |-> 2, base |-> Const("I32", WASM_PAGE_SIZE - 1), data |-> <<7, 8>>],
      [memory_index |-> 2, base |-> Const("I64", 0), data |-> <<1>>],
      [memory_index |-> 2, base |-> Const("I64", 0), data |-> <<>>] }

\* function indices 1 and 2 are the imported functions, 3 is the local one;
\* table index 1 is the imported table (two slots, at most three), table
\* index 2 the local table of two slots
ElemInitializers ==
    { [table_index |-> 2, base |-> Const("I32", 3), elements |-> <<3, 1>>],
      [table_index |-> 2, base |-> Const("I32", 0), elements |-> <<1>>],
      [table_index |-> 2, base |-> Const("I32", -1), elements |-> <<1>>],
      [table_index |-> 2, base |-> Const("I32", -1), elements |-> <<1, 1, 1>>],
      [table_index |-> 1, base |-> Const("I32", 2), elements |-> <<3>>],
      [table_index |-> 1, base |-> Const("I32", 2), elements |-> <<1, 2>>] }

SeqsUpTo(S, n) == UNION { [1..k -> S] : k \in 0..n }

\* the ModuleInner of the instantiated module
InstModule(data_initializers, elem_initializers) ==
    [func_assoc |-> <<1, 1, 2>>,
     func_resolver |-> <<"local_fn">>,
     memories |-> <<Descriptor(1, None)>>,
     tables |-> <<TableDescriptor(2, None)>>,
     globals |-> << [desc |-> GlobalDescriptor(TRUE, "I32"), init |-> GetGlobal(1)],
                    [desc |-> GlobalDescriptor(FALSE, "I32"), init |-> Const("I32", 7)] >>,
     data_initializers |-> data_initializers,
     elem_initializers |-> elem_initializers]
    @@ ModuleOf(InstDecls)

InstModules ==
    { InstModule(data, elems) :
         data \in SeqsUpTo(DataInitializers, MaxDataInits),
         elems \in SeqsUpTo(ElemInitializers, MaxElemInits) }

\* the embedder holds a memory of two pages and a table an earlier instance
\* has written to
InitInst ==
    LET m == Memory_new(Descriptor(2, None), NullLocal,
                        [a \in Addr |-> FreeRegion], 1, 1, TRUE, TRUE)
    IN  /\ regions = m.regions
        /\ storages = << [memory_storage |-> m.ret.val, local |-> 1] >>
        /\ vm_local = <<m.local>>
        /\ handles = << [desc |-> Descriptor(2, None), storage |-> 1] >>
        /\ backing = NoBacking
        /\ table_cells = << [Table_new(TableDescriptor(2, Some(3)))
                                EXCEPT !.elements[1] = PriorEntry] >>
        /\ last_op = "init"
        /\ last = [ret |-> Unit]
        /\ wrote = {}

\* the heap LocalBacking::new works on
heap == [regions |-> regions, storages |-> storages,
         vm_local |-> vm_local, table_cells |-> table_cells]

\* the imports of the module are resolved
LinkInst ==
    /\ last_op = "init"
    /\ Link(ModuleOf(InstDecls), InstImports, VmCtx)

\* the embedder writes to its memory before the instance is built
PriorWrite ==
    /\ last_op = "link"
    /\ \E ty \in ValueTypes, offset \in Offsets :
          \E value \in ValuesOf(ty) : Write(handles[1], ty, offset, value)

\* LocalBacking::new(module, imports, vmctx) for the linked imports
Instantiate(module) ==
    /\ backing.tag = "Some"
    /\ \E allocOk \in BOOLEAN, protectOk \in BOOLEAN :
          LET r == LocalBacking_new(module, backing.val, VmCtx, heap, allocOk, protectOk)
          IN  /\ regions' = r.heap.regions
              /\ storages' = r.heap.storages
              /\ vm_local' = r.heap.vm_local
              /\ table_cells' = r.heap.table_cells
              /\ last_op' = "instantiate"
              /\ last' = [module |-> module, before |-> heap,
                          data_done |-> r.data_done, elem_steps |-> r.elem_steps,
                          ret |-> r.ret]
    /\ UNCHANGED <<handles, backing, wrote>>

\* the one instantiation of a run
InstantiateOnce ==
    /\ last_op \in {"link", "write"}
    /\ \E module \in InstModules : Instantiate(module)

NextInst ==
    \/ LinkInst
    \/ PriorWrite
    \/ InstantiateOnce

SpecInst == InitInst /\ [][NextInst]_vars

----------------------------------------------------------------------------
(* Claims about DynamicMemory::grow and Memory::new *)

\* the accessible bytes of the memory behind a handle
bytes_of(self) == as_slice(memory_storage_of(self), regions).data

\* the vm::LocalMemory record of the memory behind a handle
record_of(self) == vm_local[local_of(self)]

\* C1: a successful grow(delta) leaves size() = old size() + delta and every byte
\* at offsets 0 .. old_size * 65536 as it was.
C1_GrowAddsDeltaKeepsBytes ==
    [][\A self \in AllHandles, delta \in Deltas :
          (last_op' = "grow" /\ Grow(self, delta) /\ last'.ret.tag = "Some") =>
             /\ Memory_size(self)' = Memory_size(self) + delta
             /\ slice_to(bytes_of(self)', bytes(Memory_size(self))) = bytes_of(self)]_vars

C1_Witness ==
    /\ last_op = "grow"
    /\ last.ret.tag = "Some"
    /\ \E self \in AllHandles :
          /\ Memory_size(self) > last.ret.val
          /\ bytes_of(self) # EmptyBytes

\* C2: a grow(delta) that returns None, whatever made it fail, leaves size(), the
\* accessible bytes and the base and bound of the VM memory record as they were.
C2_FailedGrowChangesNothing ==
    [][\A self \in AllHandles, delta \in Deltas :
          (last_op' = "grow" /\ Grow(self, delta) /\ last'.ret = None) =>
             /\ Memory_size(self)' = Memory_size(self)
             /\ bytes_of(self)' = bytes_of(self)
             /\ record_of(self)' = record_of(self)
             /\ regions' = regions]_vars

\* a grow within the maximum failed (the OS refused the mapping or the protection)
\* on a memory that holds data
C2_Witness ==
    /\ last_op = "grow"
    /\ last.ret = None
    /\ \E self \in AllHandles :
          /\ memory_storage_of(self).max = None
          /\ Memory_size(self) = 1
          /\ bytes_of(self) # EmptyBytes

\* C3: grow(delta) returns Some(previous page count) on success and None when
\* current + delta would exceed the maximum; grow(Pages(0)) returns Some(current)
\* in every state and changes nothing.
C3_GrowResult ==
    [][\A self \in AllHandles, delta \in Deltas :
          (last_op' = "grow" /\ Grow(self, delta)) =>
             LET current == Memory_size(self)
                 max == memory_storage_of(self).max
             IN  /\ last'.ret.tag = "Some" => last'.ret.val = current
                 /\ (delta > 0 /\ max.tag = "Some" /\ current + delta > max.val)
                       => last'.ret = None
                 /\ delta = 0 =>
                       /\ last'.ret = Some(current)
                       /\ UNCHANGED <<regions, storages, vm_local>>]_vars

\* grow(0) answered Some(current) on a memory that stands at its maximum
C3_Witness ==
    /\ last_op = "grow"
    /\ \E self \in AllHandles :
          /\ Memory_size(self) > 0
          /\ memory_storage_of(self).max = Some(Memory_size(self))
          /\ last.ret = Some(Memory_size(self))

\* C4: after Memory::new and after every grow, size() >= descriptor.minimum, and
\* size() <= descriptor.maximum whenever a maximum is present.
C4_SizeWithinDescriptor ==
    \A self \in AllHandles :
       /\ Memory_size(self) >= Memory_descriptor(self).minimum
       /\ Memory_descriptor(self).maximum.tag = "Some" =>
             Memory_size(self) <= Memory_descriptor(self).maximum.val

\* C5: between operations the VM memory record has bound = size() * 65536 and
\* base = the start of the mapping that backs the memory now, a live mapping
\* whose accessible prefix is bound bytes long (and, for a dynamic memory, which
\* is just that prefix and its guard).
C5_RecordNamesCurrentRegion ==
    \A self \in AllHandles :
       /\ record_of(self).bound = bytes(Memory_size(self))
       /\ record_of(self).base = memory_storage_of(self).memory
       /\ regions[record_of(self).base].live
       /\ regions[record_of(self).base].rw = record_of(self).bound
       /\ to_type(self) = "Dynamic" =>
             regions[record_of(self).base].len = record_of(self).bound + DYNAMIC_GUARD_SIZE

\* the memory was moved by a grow and its first mapping released
C5_Witness ==
    /\ last_op = "grow"
    /\ \E self \in AllHandles :
          /\ record_of(self).base = 2
          /\ ~regions[1].live
          /\ record_of(self).bound = bytes(2)

----------------------------------------------------------------------------
(* Claims about handles, typed access and the linker *)

\* the handle the embedder exported under the name of the index-th memory import
exported_memory(module, imports, index) ==
    imports[module.imported_memories[index][1].namespace]
           [module.imported_memories[index][1].name].memory

\* the copies of the backing that stand for the memory behind self
copies_of(self) ==
    IF backing.tag = "Some"
    THEN {i \in DOMAIN backing.val.memories : backing.val.memories[i].storage = self.storage}
    ELSE {}

\* C6: every handle of a memory, the copies a backing stores included, shares one
\* storage and one VM memory record: the copy the linker stores is on the storage
\* of the exported handle and vm_memories holds the address of that storage's
\* record; a successful grow or a write through one handle shows in size() and
\* read through the others and in the record vm_memories points at.
C6_HandlesShareStorageAndRecord ==
    /\ [](last_op = "link" /\ last.ret.tag = "Ok" =>
            \A i \in DOMAIN backing.val.memories :
               LET exported == exported_memory(last.module, last.imports, i)
               IN  /\ backing.val.memories[i].storage = exported.storage
                   /\ backing.val.vm_memories[i] = local_of(exported))
    /\ [](backing.tag = "Some" =>
            /\ DOMAIN backing.val.vm_memories = DOMAIN backing.val.memories
            /\ \A i \in DOMAIN backing.val.memories :
                  backing.val.vm_memories[i] = local_of(backing.val.memories[i]))
    /\ [][\A self \in AllHandles :
            /\ \A delta \in Deltas :
                  (last_op' = "grow" /\ Grow(self, delta) /\ last'.ret.tag = "Some") =>
                     /\ \A other \in AllHandles : other.storage = self.storage =>
                           Memory_size(other)' = Memory_size(self) + delta
                     /\ \A i \in copies_of(self) :
                           /\ Memory_size(backing.val.memories[i])' = Memory_size(self) + delta
                           /\ vm_local'[backing.val.vm_memories[i]].base = memory_storage_of(self)'.memory
                           /\ vm_local'[backing.val.vm_memories[i]].bound =
                                 bytes(Memory_size(self) + delta)
            /\ \A ty \in ValueTypes, offset \in Offsets : \A value \in ValuesOf(ty) :
                  (last_op' = "write" /\ Write(self, ty, offset, value)
                      /\ last'.ret.tag = "Ok") =>
                     /\ \A other \in AllHandles : other.storage = self.storage =>
                           Memory_read(other, ty, offset)' = Ok(value)
                     /\ \A i \in copies_of(self) :
                           Memory_read(backing.val.memories[i], ty, offset)' = Ok(value)]_vars

\* an instance imports two different memories, and a grow by one page or more
\* has just moved the dynamic one: the mapping it was made at (address 1) is
\* released, and the record vm_memories points at names the new mapping and the
\* new bound, which the embedder's own handle shows as well
C6_Witness ==
    /\ last_op = "grow"
    /\ last.ret.tag = "Some"
    /\ backing.tag = "Some"
    /\ Len(backing.val.memories) = 2
    /\ backing.val.memories[1].storage # backing.val.memories[2].storage
    /\ \E i \in 1..2 :
          LET copy == backing.val.memories[i]
              record == vm_local[backing.val.vm_memories[i]]
          IN  /\ to_type(copy) = "Dynamic"
              /\ Memory_size(copy) > last.ret.val
              /\ ~regions[1].live
              /\ record.base # 1
              /\ record.base = memory_storage_of(copy).memory
              /\ regions[record.base].live
              /\ record.bound = bytes(Memory_size(copy))
              /\ \E self \in handle_set :
                    /\ self.storage = copy.storage
                    /\ Memory_size(self) = Memory_size(copy)

\* C7: a typed read or write of size s at offset o succeeds exactly when
\* o + s <= size() * 65536; otherwise it returns Err, and a failing write or
\* write_many leaves every byte as it was.
C7_AccessChecksBound ==
    [][\A self \in AllHandles, ty \in ValueTypes, offset \in Offsets :
          LET in_bounds == offset + size_of(ty) <= bytes(Memory_size(self))
          IN  /\ (last_op' = "read" /\ Read(self, ty, offset)) =>
                    (last'.ret.tag = "Ok" <=> in_bounds)
              /\ \A value \in ValuesOf(ty) :
                    (last_op' = "write" /\ Write(self, ty, offset, value)) =>
                       /\ last'.ret.tag = "Ok" <=> in_bounds
                       /\ last'.ret.tag = "Err" => regions' = regions
              /\ \A values \in ManyValues :
                    (last_op' = "write_many" /\ WriteMany(self, "u8", offset, values)) =>
                       /\ last'.ret.tag = "Ok" <=>
                             offset + Len(values) <= bytes(Memory_size(self))
                       /\ last'.ret.tag = "Err" => regions' = regions]_vars

\* a write that straddles the bound of a one-page memory was refused
C7_Witness ==
    /\ last_op = "write"
    /\ last.ret.tag = "Err"
    /\ \E self \in AllHandles : Memory_size(self) = 1

\* C8: a write of v at an in-bounds offset, then a read of the same type at the
\* same offset through any handle of the memory, with no grow and no overlapping
\* write in between, returns Ok(v); write_many and read_many likewise.
C8_ReadReturnsWritten ==
    [][\A self \in AllHandles, offset \in Offsets :
          /\ \A ty \in ValueTypes :
                (last_op' = "read" /\ Read(self, ty, offset)) =>
                   \A f \in wrote :
                      (f.storage = self.storage /\ ~f.many /\ f.ty = ty /\ f.offset = offset)
                         => last'.ret = Ok(f.value)
          /\ \A count \in Counts :
                (last_op' = "read_many" /\ ReadMany(self, "u8", offset, count)) =>
                   \A f \in wrote :
                      (f.storage = self.storage /\ f.many /\ f.ty = "u8"
                          /\ f.offset = offset /\ usize_of(f.len) = count)
                         => last'.ret = Ok(f.value)]_vars

\* a two-byte value that crosses a page boundary was written and read back while
\* the embedder held two handles of the memory
C8_Witness ==
    /\ last_op = "read"
    /\ last.ret = Ok(258)
    /\ Len(handles) = 2
    /\ \E f \in wrote : ~f.many /\ f.ty = "u16" /\ f.value = 258

\* what the expected signature or descriptor of a declaration is compared with
compatible(decl, export) ==
    CASE decl.kind = "function" -> Signatures[decl.expect] = export.signature
      [] decl.kind = "memory" -> memory_fits_in_imported(decl.expect, export.memory.desc)
      [] decl.kind = "table" -> table_fits_in_imported(decl.expect, export.table.desc)
      [] decl.kind = "global" -> export.global.desc = decl.expect

\* a declared import mismatches: nothing is exported under its name, or an export
\* of another kind, or one of an incompatible signature or descriptor
mismatches(decl, imports) ==
    LET export == get_import(imports, decl.namespace, decl.name)
    IN  \/ export.tag = "None"
        \/ /\ export.tag = "Some"
           /\ export.val.kind # decl.kind
        \/ /\ export.tag = "Some"
           /\ export.val.kind = decl.kind
           /\ ~compatible(decl, export.val)

\* the mismatching declarations of one kind, in declaration order
mismatching(decls, imports, kind) ==
    SelectSeq(of_kind(decls, kind), LAMBDA d : mismatches(d, imports))

\* C9: ImportBacking::new returns Err exactly when at least one declared import is
\* missing, of the wrong kind or incompatible, and the list it returns then has
\* one entry per mismatching import of any kind.
C9_ErrIffMismatchOnePerImport ==
    last_op = "link" =>
       LET decls == last.module.decls
           bad == {i \in DOMAIN decls : mismatches(decls[i], last.imports)}
       IN  /\ last.ret.tag = "Err" <=> bad # {}
           /\ last.ret.tag = "Err" => Len(last.ret.err) = Cardinality(bad)

\* two imports of different kinds mismatch and both are reported
C9_Witness ==
    /\ last_op = "link"
    /\ last.ret.tag = "Err"
    /\ Len(last.ret.err) = 2
    /\ \E i, j \in DOMAIN last.module.decls :
          /\ last.module.decls[i].kind = "global"
          /\ last.module.decls[j].kind = "function"
          /\ mismatches(last.module.decls[i], last.imports)
          /\ mismatches(last.module.decls[j], last.imports)

\* the <<namespace, name>> an error entry is about
subject(e) == <<e.namespace, e.name>>

\* C10: the four passes run in the order function, memory, table, global, each
\* to its end: the errors returned are those of the mismatching imports in that
\* kind order and in declaration order within a kind, and an Ok backing holds
\* every declared import, never only the ones that linked.
C10_PassesInOrderToCompletion ==
    last_op = "link" =>
       LET decls == last.module.decls
           bad == mismatching(decls, last.imports, "function")
                  \o mismatching(decls, last.imports, "memory")
                  \o mismatching(decls, last.imports, "table")
                  \o mismatching(decls, last.imports, "global")
       IN  /\ last.ret.tag = "Err" =>
                /\ [i \in DOMAIN last.ret.err |-> subject(last.ret.err[i])]
                      = [i \in DOMAIN bad |-> <<bad[i].namespace, bad[i].name>>]
                /\ backing = NoBacking
           /\ last.ret.tag = "Ok" =>
                /\ backing = Some(last.ret.val)
                /\ Len(last.ret.val.vm_functions) = Len(of_kind(decls, "function"))
                /\ Len(last.ret.val.memories) = Len(of_kind(decls, "memory"))
                /\ Len(last.ret.val.vm_memories) = Len(of_kind(decls, "memory"))
                /\ Len(last.ret.val.tables) = Len(of_kind(decls, "table"))
                /\ Len(last.ret.val.vm_tables) = Len(of_kind(decls, "table"))
                /\ Len(last.ret.val.globals) = Len(of_kind(decls, "global"))
                /\ Len(last.ret.val.vm_globals) = Len(of_kind(decls, "global"))

\* a table import declared first and a memory import declared second both
\* mismatch: the memory error is reported first
C10_Witness ==
    /\ last_op = "link"
    /\ last.ret.tag = "Err"
    /\ Len(last.module.decls) = 2
    /\ last.module.decls[1].kind = "table"
    /\ last.module.decls[2].kind = "memory"
    /\ last.module.decls[1].name # last.module.decls[2].name
    /\ Len(last.ret.err) = 2
    /\ subject(last.ret.err[1]) = <<"env", last.module.decls[2].name>>

----------------------------------------------------------------------------
(* Claims about the outcome of each import *)

\* the names of the descriptor errors, by kind of import
descriptor_error(kind) ==
    CASE kind = "function" -> "IncorrectImportSignature"
      [] kind = "memory" -> "IncorrectMemoryDescriptor"
      [] kind = "table" -> "IncorrectTableDescriptor"
      [] kind = "global" -> "IncorrectGlobalDescriptor"

\* what a declaration expects and what an export of its kind supplies
expected_of(decl) == IF decl.kind = "function" THEN Signatures[decl.expect] ELSE decl.expect

supplied_by(export) ==
    CASE export.kind = "function" -> export.signature
      [] export.kind = "memory" -> export.memory.desc
      [] export.kind = "table" -> export.table.desc
      [] export.kind = "global" -> export.global.desc

\* the error of a mismatching declared import, by priority: absent, then of
\* another kind, then incompatible
outcome(decl, imports) ==
    LET export == get_import(imports, decl.namespace, decl.name)
    IN  IF export.tag = "None"
        THEN [error |-> "ImportNotFound", namespace |-> decl.namespace, name |-> decl.name]
        ELSE IF export.val.kind # decl.kind
        THEN [error |-> "IncorrectImportType", namespace |-> decl.namespace,
              name |-> decl.name, expected |-> decl.kind, found |-> export.val.kind]
        ELSE [error |-> descriptor_error(decl.kind), namespace |-> decl.namespace,
              name |-> decl.name, expected |-> expected_of(decl),
              found |-> supplied_by(export.val)]

\* the mismatching declarations in the order the linker meets them
all_mismatching(decls, imports) ==
    mismatching(decls, imports, "function") \o mismatching(decls, imports, "memory")
    \o mismatching(decls, imports, "table") \o mismatching(decls, imports, "global")

\* C11: each declared import has one outcome, by priority: absent ->
\* ImportNotFound; of another kind -> IncorrectImportType with the kind of the
\* pass as expected and the kind of the export as found; of the right kind but
\* incompatible -> the descriptor error of its kind; otherwise no error.
C11_OutcomeByPriority ==
    last_op = "link" =>
       LET bad == all_mismatching(last.module.decls, last.imports)
           errors == IF last.ret.tag = "Err" THEN last.ret.err ELSE <<>>
       IN  errors = [i \in DOMAIN bad |-> outcome(bad[i], last.imports)]

\* a memory import is supplied a global: the one error names both kinds
C11_Witness ==
    /\ last_op = "link"
    /\ last.ret.tag = "Err"
    /\ Len(last.module.decls) = 1
    /\ last.module.decls[1].kind = "memory"
    /\ last.ret.err = << [error |-> "IncorrectImportType", namespace |-> "env",
                          name |-> last.module.decls[1].name,
                          expected |-> "memory", found |-> "global"] >>

\* the export bound to a declared import
export_of(decl, imports) == imports[decl.namespace][decl.name]

\* C17: an accepted function import is stored with the supplier's function
\* pointer, with the vmctx given to ImportBacking::new when the supplier's
\* context is Internal and the supplier's pointer when it is External; it is
\* accepted only with a signature equal to the expected one.
C17_ImportedFuncContext ==
    (last_op = "link" /\ last.ret.tag = "Ok") =>
       LET fs == of_kind(last.module.decls, "function")
       IN  \A i \in DOMAIN last.ret.val.vm_functions :
              LET export == export_of(fs[i], last.imports)
                  stored == last.ret.val.vm_functions[i]
              IN  /\ export.signature = Signatures[fs[i].expect]
                  /\ stored.func = export.func
                  /\ export.ctx.tag = "Internal" => stored.vmctx = last.vmctx
                  /\ export.ctx.tag = "External" => stored.vmctx = export.ctx.ptr

\* a module imports a host function and a function of another instance
C17_Witness ==
    /\ last_op = "link"
    /\ last.ret.tag = "Ok"
    /\ Len(last.ret.val.vm_functions) = 2
    /\ last.ret.val.vm_functions[1] = [func |-> "inner_fn", vmctx |-> VmCtx]
    /\ last.ret.val.vm_functions[2] = [func |-> "host_fn", vmctx |-> "host_ctx"]

\* C18: an Ok backing has one entry per declared import in each map, entry i is
\* the i-th declared import of its kind, and the handle and the raw pointer at
\* the same index are of the same entity.
C18_MapsAligned ==
    (last_op = "link" /\ last.ret.tag = "Ok") =>
       LET b == last.ret.val
           ms == of_kind(last.module.decls, "memory")
           ts == of_kind(last.module.decls, "table")
           gs == of_kind(last.module.decls, "global")
       IN  /\ DOMAIN b.memories = DOMAIN ms /\ DOMAIN b.vm_memories = DOMAIN ms
           /\ DOMAIN b.tables = DOMAIN ts /\ DOMAIN b.vm_tables = DOMAIN ts
           /\ DOMAIN b.globals = DOMAIN gs /\ DOMAIN b.vm_globals = DOMAIN gs
           /\ DOMAIN b.vm_functions = DOMAIN of_kind(last.module.decls, "function")
           /\ \A i \in DOMAIN ms :
                 /\ b.memories[i].storage = export_of(ms[i], last.imports).memory.storage
                 /\ b.vm_memories[i] = Memory_vm_local_memory(b.memories[i])
           /\ \A i \in DOMAIN ts :
                 /\ b.tables[i] = export_of(ts[i], last.imports).table
                 /\ b.vm_tables[i] = Table_vm_local_table(b.tables[i])
           /\ \A i \in DOMAIN gs :
                 /\ b.globals[i] = export_of(gs[i], last.imports).global
                 /\ b.vm_globals[i] = Global_vm_local_global(b.globals[i])

\* a module imports two different tables
C18_Witness ==
    /\ last_op = "link"
    /\ last.ret.tag = "Ok"
    /\ Len(last.ret.val.tables) = 2
    /\ last.ret.val.tables[1] # last.ret.val.tables[2]
    /\ last.ret.val.vm_tables[2] = Table_vm_local_table(last.ret.val.tables[2])

----------------------------------------------------------------------------
(* Claims about the width of the page count *)

\* current + (hi * 65536 + lo) does not fit in 32 bits
exceeds_u32(current, hi, lo) ==
    (current \div 65536) + hi + (((current % 65536) + lo) \div 65536) >= 65536

\* C19: a grow(delta), delta > 0, whose sum current + delta does not fit in the
\* 32-bit page count returns None and leaves size, bytes, base and bound as they
\* were, with or without a maximum; the sum never wraps to a smaller page count.
C19_GrowSumNeverWraps ==
    [][\A self \in AllHandles, delta \in HugeDeltas :
          (last_op' = "grow" /\ GrowHuge(self, delta)
              /\ exceeds_u32(Memory_size(self), delta[1], delta[2])) =>
             /\ last'.ret = None
             /\ Memory_size(self)' = Memory_size(self)
             /\ bytes_of(self)' = bytes_of(self)
             /\ record_of(self)' = record_of(self)
             /\ regions' = regions]_vars

\* a memory of two pages without a maximum, holding data, was asked to grow by
\* a delta at the top of the u32 range
C19_Witness ==
    /\ last_op = "grow"
    /\ last.ret = None
    /\ \E self \in AllHandles :
          /\ memory_storage_of(self).max = None
          /\ Memory_size(self) = 2
          /\ bytes_of(self) # EmptyBytes
          /\ \A delta \in HugeDeltas : exceeds_u32(Memory_size(self), delta[1], delta[2])

----------------------------------------------------------------------------
(* Claims about LocalBacking::new *)

\* the state the one instantiation of a run has left
instantiated == last_op = "instantiate"

constructed == instantiated /\ last.ret.tag = "Ok"

aborted == instantiated /\ last.ret.tag = "Err"

\* the data initializers of the module that a completed construction has
\* applied: the ones with a payload
applied_data ==
    {i \in 1..Len(last.module.data_initializers) :
        Len(last.module.data_initializers[i].data) > 0}

data_init(i) == last.module.data_initializers[i]

\* the evaluated base of an initializer that has been applied
base_of(init) == as_usize(init_base_of(init.base, backing.val).val)

\* the offsets a data initializer covers
range_of(i) == {base_of(data_init(i)) + k - 1 : k \in 1..Len(data_init(i).data)}

memory_indices == 1..(Len(last.module.imported_memories) + Len(last.module.memories))

imported_memory(m) == m <= Len(last.module.imported_memories)

\* the mapping behind the memory with index m of the module
region_of(m) ==
    IF imported_memory(m)
    THEN memory_storage_of(backing.val.memories[m]).memory
    ELSE memory_storage_of(last.ret.val.memories[m - Len(last.module.imported_memories)]).memory

\* the bytes of memory m after the construction, and before it
data_after(m) == regions[region_of(m)].data

data_before(m) ==
    IF imported_memory(m) THEN last.before.regions[region_of(m)].data ELSE EmptyBytes

\* every byte no applied initializer covers is as it was before the construction
untouched_bytes_kept ==
    \A m \in memory_indices :
       \A o \in (DOMAIN data_after(m)) \cup (DOMAIN data_before(m)) :
          (\A i \in applied_data : data_init(i).memory_index = m => o \notin range_of(i))
             => byte_at(data_after(m), o) = byte_at(data_before(m), o)

\* C12 as stated: after LocalBacking::new every applied data initializer's
\* range holds its payload, and every byte outside the applied ranges is as
\* it was before
C12_EveryPayloadInPlace ==
    constructed =>
       /\ \A i \in applied_data :
             get_bytes(data_after(data_init(i).memory_index), base_of(data_init(i)),
                       Len(data_init(i).data)) = data_init(i).data
       /\ untouched_bytes_kept

\* a later-declared applied initializer covers offset o of the memory of i
covered_later(i, o) ==
    \E j \in applied_data :
       j > i /\ data_init(j).memory_index = data_init(i).memory_index /\ o \in range_of(j)

\* C12, amended: after LocalBacking::new every byte of an applied data
\* initializer's range that no later-declared applied initializer covers
\* holds the payload's byte, and every byte outside the applied ranges is as
\* it was before (zero in a fresh local memory, the prior content in an
\* imported one)
C12_PayloadInPlaceUnlessOverwritten ==
    constructed =>
       /\ \A i \in applied_data :
             \A k \in 1..Len(data_init(i).data) :
                LET o == base_of(data_init(i)) + k - 1
                IN  ~covered_later(i, o) =>
                       byte_at(data_after(data_init(i).memory_index), o) = data_init(i).data[k]
       /\ untouched_bytes_kept

\* two applied initializers overlap in the imported memory with different
\* bytes, and a byte the embedder wrote outside their ranges is still there
C12_Witness ==
    /\ constructed
    /\ \E i \in applied_data, j \in applied_data :
          /\ i < j
          /\ data_init(i).memory_index = 1
          /\ data_init(j).memory_index = 1
          /\ \E o \in range_of(i) \cap range_of(j) :
                data_init(i).data[o - base_of(data_init(i)) + 1]
                   # data_init(j).data[o - base_of(data_init(j)) + 1]
    /\ \E o \in DOMAIN data_before(1) :
          /\ \A i \in applied_data : data_init(i).memory_index = 1 => o \notin range_of(i)
          /\ byte_at(data_after(1), o) # 0

\* the applied data initializer declared last among those covering offset o of
\* memory m
latest_covering(m, o) ==
    CHOOSE j \in applied_data :
       /\ data_init(j).memory_index = m /\ o \in range_of(j)
       /\ \A i \in applied_data :
             (data_init(i).memory_index = m /\ o \in range_of(i)) => i <= j

\* every byte of memory m a data initializer covers holds the byte of the
\* initializer declared last among those covering it
in_declaration_order(m) ==
    \A i \in applied_data :
       data_init(i).memory_index = m =>
          \A o \in range_of(i) :
             LET j == latest_covering(m, o)
             IN  byte_at(data_after(m), o) = data_init(j).data[o - base_of(data_init(j)) + 1]

\* an element initializer has acted on a table of the embedder
elements_begun ==
    \E id \in DOMAIN last.before.table_cells :
       table_cells[id] # last.before.table_cells[id]

\* C13: data initializers are applied in declaration order, all of them
\* before any element initializer and before LocalBacking::new returns: when
\* the construction has returned, and already when an element initializer has
\* acted, every byte covered by data initializers holds the value of the one
\* declared last
C13_DataInOrderBeforeElements ==
    /\ constructed => \A m \in memory_indices : in_declaration_order(m)
    /\ (instantiated /\ elements_begun) =>
          \A m \in memory_indices : imported_memory(m) => in_declaration_order(m)

\* the construction stopped at an element initializer after another one had
\* acted, with two data initializers overlapping in the imported memory
C13_Witness ==
    /\ aborted
    /\ elements_begun
    /\ \E i \in applied_data, j \in applied_data :
          /\ i < j
          /\ data_init(i).memory_index = 1
          /\ data_init(j).memory_index = 1
          /\ \E o \in range_of(i) \cap range_of(j) :
                data_init(i).data[o - base_of(data_init(i)) + 1]
                   # data_init(j).data[o - base_of(data_init(j)) + 1]

\* the minimum the module declares for the memory with index m
declared_minimum(m) ==
    IF imported_memory(m)
    THEN last.module.imported_memories[m][2].minimum
    ELSE last.module.memories[m - Len(last.module.imported_memories)].minimum

\* a data initializer with a payload that ends beyond the declared minimum of
\* its memory
beyond_declared_minimum(init) ==
    /\ Len(init.data) > 0
    /\ init_base_of(init.base, backing.val).tag = "Ok"
    /\ exceeds(init_base_of(init.base, backing.val).val, Len(init.data),
               bytes(declared_minimum(init.memory_index)))

\* C14 as stated: a data initializer with a non-empty payload, on a local or
\* an imported memory, is written only if base + len is within the declared
\* minimum of its memory: a module with an initializer beyond it yields no
\* backing
C14_WrittenOnlyWithinDeclaredMinimum ==
    instantiated =>
       \A i \in 1..Len(last.module.data_initializers) :
          beyond_declared_minimum(data_init(i)) => last.ret.tag = "Err"

\* the element initializers that have acted: the k-th one took the tables from
\* last.elem_steps[k] to last.elem_steps[k + 1]
elem_applied == 1..(Len(last.elem_steps) - 1)

elem_init(k) == last.module.elem_initializers[k]

\* the table an element initializer targets: the embedder's for an imported
\* table, the one the construction has made for a local table
table_id_of(init) ==
    IF init.table_index <= Len(last.module.imported_tables)
    THEN backing.val.tables[init.table_index].id
    ELSE Len(last.before.table_cells) + init.table_index - Len(last.module.imported_tables)

\* the pointer of the function with index f of the module
func_pointer(f) ==
    IF f <= Len(last.module.imported_functions)
    THEN backing.val.vm_functions[f].func
    ELSE last.module.func_resolver[f - Len(last.module.imported_functions)]

larger(a, b) == IF a >= b THEN a ELSE b

\* C15: an element initializer with base b and n elements leaves its table
\* with size max(previous size, b + n); slots b .. b+n hold the entries of the
\* payload's functions in payload order, every other slot holds what it held
\* before, the slots added by the grow are empty, and no other table changes;
\* the tables of a completed construction are as the last initializer left them
C15_GrowByShortfallAndFill ==
    /\ constructed => table_cells = last.elem_steps[Len(last.elem_steps)]
    /\ instantiated =>
       \A k \in elem_applied :
          LET init == elem_init(k)
              b == base_of(init)
              n == Len(init.elements)
              id == table_id_of(init)
              pre == last.elem_steps[k]
              post == last.elem_steps[k + 1]
              was == pre[id].elements
              is == post[id].elements
          IN  /\ Len(is) = larger(Len(was), b + n)
              /\ \A slot \in 1..Len(is) :
                    IF b < slot /\ slot <= b + n
                    THEN is[slot].func = func_pointer(init.elements[slot - b])
                    ELSE IF slot <= Len(was)
                    THEN is[slot] = was[slot]
                    ELSE is[slot] = EmptySlot
              /\ \A other \in DOMAIN pre : other # id => post[other] = pre[other]
              /\ DOMAIN post = DOMAIN pre

\* an element initializer has grown the table of the embedder, which held an
\* entry before, and another one has grown the local table past a gap
C15_Witness ==
    /\ constructed
    /\ \E k \in elem_applied :
          /\ table_id_of(elem_init(k)) = 1
          /\ Len(last.elem_steps[k + 1][1].elements) > Len(last.elem_steps[k][1].elements)
          /\ last.elem_steps[k + 1][1].elements[1] = PriorEntry
    /\ \E k \in elem_applied :
          /\ table_id_of(elem_init(k)) = 2
          /\ base_of(elem_init(k)) > Len(last.elem_steps[k][2].elements)
          /\ Len(last.elem_steps[k + 1][2].elements) = 5

imported_function(f) == f <= Len(last.module.imported_functions)

\* C16: every entry an element initializer writes, to a local table or to an
\* imported one, is {func, ctx, sig_id} with sig_id the index func_assoc gives
\* for the function; for a local function func is the func_resolver's pointer
\* and ctx the vmctx of the instance under construction, for an imported
\* function func and ctx are the pair ImportBacking.vm_functions stores
C16_EntryFuncCtxSig ==
    instantiated =>
       \A k \in elem_applied :
          \A j \in 1..Len(elem_init(k).elements) :
             LET f == elem_init(k).elements[j]
                 entry == last.elem_steps[k + 1][table_id_of(elem_init(k))]
                             .elements[base_of(elem_init(k)) + j]
             IN  /\ DOMAIN entry = {"func", "ctx", "sig_id"}
                 /\ entry.sig_id = last.module.func_assoc[f]
                 /\ imported_function(f) =>
                       /\ entry.func = backing.val.vm_functions[f].func
                       /\ entry.ctx = backing.val.vm_functions[f].vmctx
                 /\ ~imported_function(f) =>
                       /\ entry.func =
                             last.module.func_resolver[f - Len(last.module.imported_functions)]
                       /\ entry.ctx = VmCtx

\* the local function has been entered in the table of the embedder, and the
\* host function, which brings its own context, in the local table
C16_Witness ==
    /\ constructed
    /\ \E slot \in DOMAIN table_cells[1].elements :
          /\ table_cells[1].elements[slot].func = "local_fn"
          /\ table_cells[1].elements[slot].ctx = VmCtx
    /\ \E slot \in DOMAIN table_cells[2].elements :
          /\ table_cells[2].elements[slot].func = "host_fn"
          /\ table_cells[2].elements[slot].ctx = "host_ctx"

\* the bytes of memory m once the first d data initializers have been gone
\* through, starting from data
RECURSIVE overlaid(_, _, _)
overlaid(data, m, d) ==
    IF d = 0
    THEN data
    ELSE LET init == data_init(d)
             prev == overlaid(data, m, d - 1)
         IN  IF init.memory_index = m /\ Len(init.data) > 0
             THEN put_bytes(prev, base_of(init), init.data)
             ELSE prev

\* C20: initializer application is not atomic for imported storage: when
\* LocalBacking::new panics, the embedder's handle on the imported memory
\* reads the prior content overlaid with the payloads of the data initializers
\* gone through before the panic, and the imported table is as the last
\* element initializer that acted left it, grown if that initializer grew it
C20_ImportedWritesSurviveAbort ==
    aborted =>
       /\ bytes_of(handles[1]) = overlaid(data_before(1), 1, last.data_done)
       /\ \A id \in DOMAIN last.before.table_cells :
             table_cells[id] = IF last.elem_steps = <<>>
                               THEN last.before.table_cells[id]
                               ELSE last.elem_steps[Len(last.elem_steps)][id]
       /\ DOMAIN table_cells = DOMAIN last.before.table_cells

\* the construction panicked at its second element initializer: the memory of
\* the embedder holds a payload it did not hold before, and the table of the
\* embedder has been grown and written to
C20_Witness ==
    /\ aborted
    /\ Len(last.elem_steps) = 2
    /\ bytes_of(handles[1]) # data_before(1)
    /\ Len(table_cells[1].elements) > Len(last.before.table_cells[1].elements)
    /\ table_cells[1].elements[3].func = "local_fn"

====
